---- MODULE Spec2Model ----
(***************************************************************************)
(* Model of the FitScore engine of src/src/04_calculate_fit_score.py.      *)
(*                                                                         *)
(* Numbers.  The program computes with real numbers (Python floats).  The  *)
(* model computes the same values exactly:                                 *)
(*   - a rational is a pair <<n, d>> in lowest terms with d > 0;           *)
(*   - a value that involves the cosine similarity is a + b * sim, where   *)
(*     a and b are rationals and sim = dot / sqrt(pp * tt) is kept as the  *)
(*     three integers dot, pp, tt;                                         *)
(*   - comparisons that need products beyond 31 bits use naturals written  *)
(*     as sequences of base-10000 digits (least significant first).        *)
(* Floating-point rounding error is outside the model.                     *)
(***************************************************************************)
EXTENDS Integers, Sequences, FiniteSets, TLC

VARIABLES
    pc,             \* position of the run ("start", "done")
    dimension,      \* argument `dimension` of calculate_player_dna_score
    player,         \* one player's metric record (metric name -> value)
    benchmarks,     \* the benchmark table (metric name -> value)
    america_dna,    \* the team's DNA profile (dimension -> score)
    threshold,      \* argument `threshold` of identify_team_weaknesses
    player_vector,  \* a player's DNA vector (dimension -> rational)
    scale,          \* the rational a drawn vector is scaled by
    weaknesses,     \* the Weakness Set, in insertion order
    ret,            \* what the calls made so far returned
    pool,           \* the scouting pool file: rows with their missing cells
    players_df,     \* main's players_df
    america_vector, \* main's america_vector
    results,        \* main's results
    results_sorted, \* main's results_sorted
    top_recommendations,    \* main's top_recommendations
    worst_recommendations,  \* main's worst_recommendations
    files,          \* the output files written so far, in the order written
    error           \* the exception that ended main, if one did

\* the variables of main that the calls of single functions leave alone
mainvars == <<pool, players_df, america_vector, results, results_sorted,
              top_recommendations, worst_recommendations, files, error>>

vars == <<pc, dimension, player, benchmarks, america_dna, threshold,
          player_vector, scale, weaknesses, ret, mainvars>>

-----------------------------------------------------------------------------
(* Bounds of the model *)

\* metric values of a player record range over -NegMetric .. MaxMetric
MaxMetric == 3
NegMetric == 1
\* benchmark values range over 0 .. MaxBench
MaxBench == 2
\* the entries of a drawn DNA vector range over 0 .. MaxScore
MaxScore == 2
\* a vector is scaled by n / d with n, d in 1 .. MaxScale
MaxScale == 2
\* the scores of a drawn player profile are 0 and 100 - 10 * k, k in 0 .. MaxLevel
MaxLevel == 1
\* the metrics of a drawn pool player range over 0 .. MaxPoolMetric
MaxPoolMetric == 2
\* a drawn scouting pool has 0 .. MaxPool players with the regular input
\* files and 0 .. MaxSmallPool players with the other input files
MaxPool == 4
MaxSmallPool == 2
\* the size of the two extracts.  The program sets TOP_N = 20 (line 59); main is
\* run here with a smaller TOP_N so that pools below, at and above 2 * TOP_N
\* players are drawn.
TOP_N == 2

-----------------------------------------------------------------------------
(* Exact arithmetic *)

Abs(n) == IF n < 0 THEN 0 - n ELSE n

RECURSIVE GCD(_, _)
GCD(a, b) == IF b = 0 THEN a ELSE GCD(b, a % b)

LCM(a, b) == (a \div GCD(a, b)) * b

\* the rational n / d (d # 0) in lowest terms
Rat(n, d) ==
    LET g == GCD(Abs(n), Abs(d))
        s == IF d < 0 THEN 0 - 1 ELSE 1
    IN  <<(s * n) \div g, (s * d) \div g>>

RInt(n) == <<n, 1>>
RAdd(x, y) == Rat(x[1] * y[2] + y[1] * x[2], x[2] * y[2])
RSub(x, y) == Rat(x[1] * y[2] - y[1] * x[2], x[2] * y[2])
RMul(x, y) == Rat(x[1] * y[1], x[2] * y[2])
RDiv(x, y) == Rat(x[1] * y[2], x[2] * y[1])
RLe(x, y) == x[1] * y[2] <= y[1] * x[2]
RLt(x, y) == x[1] * y[2] < y[1] * x[2]
\* Python min(x, y) and max(x, y): the first argument unless the second is
\* strictly smaller (larger)
RMin(x, y) == IF RLt(y, x) THEN y ELSE x
RMax(x, y) == IF RLt(x, y) THEN y ELSE x

RECURSIVE RSum(_)
RSum(s) == IF s = <<>> THEN RInt(0) ELSE RAdd(Head(s), RSum(Tail(s)))

Sign(n) == IF n < 0 THEN 0 - 1 ELSE IF n > 0 THEN 1 ELSE 0

-----------------------------------------------------------------------------
(* Naturals beyond 31 bits: sequences of base-BASE digits, least            *)
(* significant first, without leading zeros (zero is the empty sequence)    *)

BASE == 100 * 100

RECURSIVE BigCarry(_, _)
BigCarry(ds, c) ==
    IF ds = <<>>
    THEN IF c = 0 THEN <<>> ELSE <<c % BASE>> \o BigCarry(<<>>, c \div BASE)
    ELSE <<(Head(ds) + c) % BASE>> \o BigCarry(Tail(ds), (Head(ds) + c) \div BASE)

RECURSIVE BigTrim(_)
BigTrim(ds) ==
    IF ds # <<>> /\ ds[Len(ds)] = 0 THEN BigTrim(SubSeq(ds, 1, Len(ds) - 1)) ELSE ds

BigOf(n) == BigCarry(<<>>, n)

RECURSIVE SumProducts(_, _, _, _)
\* the sum of a[i] * b[k + 1 - i] over the i >= from for which both exist
SumProducts(a, b, k, from) ==
    IF from > Len(a) \/ from > k THEN 0
    ELSE (IF k + 1 - from <= Len(b) THEN a[from] * b[k + 1 - from] ELSE 0)
         + SumProducts(a, b, k, from + 1)

BigMul(a, b) ==
    IF a = <<>> \/ b = <<>> THEN <<>>
    ELSE BigTrim(BigCarry([k \in 1..(Len(a) + Len(b) - 1) |-> SumProducts(a, b, k, 1)], 0))

RECURSIVE BigCmpFrom(_, _, _)
\* -1, 0, 1: a against b, two numbers of the same length, from digit i down
BigCmpFrom(a, b, i) ==
    IF i = 0 THEN 0
    ELSE IF a[i] < b[i] THEN 0 - 1
    ELSE IF a[i] > b[i] THEN 1
    ELSE BigCmpFrom(a, b, i - 1)

BigCmp(a, b) ==
    IF Len(a) < Len(b) THEN 0 - 1
    ELSE IF Len(a) > Len(b) THEN 1
    ELSE BigCmpFrom(a, b, Len(a))

RECURSIVE BigProduct(_)
\* the product of a sequence of naturals
BigProduct(ns) ==
    IF ns = <<>> THEN <<1>> ELSE BigMul(BigOf(Head(ns)), BigProduct(Tail(ns)))

-----------------------------------------------------------------------------
(* Values a + b * sim, sim = dot / sqrt(pp * tt), or 0 when pp * tt = 0      *)

ZeroSim == [dot |-> 0, pp |-> 0, tt |-> 0]
NumOfSim(s) == [a |-> RInt(0), b |-> RInt(1), sim |-> s]
NumOfRat(r) == [a |-> r, b |-> RInt(0), sim |-> ZeroSim]
NumAddRat(x, r) == [x EXCEPT !.a = RAdd(x.a, r)]
NumMulRat(x, r) == [x EXCEPT !.a = RMul(x.a, r), !.b = RMul(x.b, r)]
NumDivRat(x, r) == [x EXCEPT !.a = RDiv(x.a, r), !.b = RDiv(x.b, r)]

\* the sign of the part b * sim of x
SurdSign(x) ==
    IF x.sim.pp = 0 \/ x.sim.tt = 0 THEN 0 ELSE Sign(x.b[1]) * Sign(x.sim.dot)

\* -1, 0, 1: (b * sim)^2 of x against the square of the rational c
SurdSquareCmp(x, c) ==
    BigCmp(BigProduct(<<Abs(x.b[1]), Abs(x.b[1]), Abs(x.sim.dot), Abs(x.sim.dot),
                        c[2], c[2]>>),
           BigProduct(<<Abs(c[1]), Abs(c[1]), x.b[2], x.b[2], x.sim.pp, x.sim.tt>>))

\* -1, 0, 1: the value x against the rational r
NumCmpRat(x, r) ==
    LET c == RSub(r, x.a)
        su == SurdSign(x)
        sc == Sign(c[1])
    IN  IF su = 0 THEN 0 - sc
        ELSE IF su > 0 /\ sc <= 0 THEN 1
        ELSE IF su < 0 /\ sc >= 0 THEN 0 - 1
        ELSE su * SurdSquareCmp(x, c)

NumLeRat(x, r) == NumCmpRat(x, r) <= 0
NumGeRat(x, r) == NumCmpRat(x, r) >= 0
NumEqRat(x, r) == NumCmpRat(x, r) = 0

\* x and y are the same value: their rational parts agree and so do their
\* parts b * sim (which is what equality is for values with equal rational
\* parts, the only values compared this way)
NumEq(x, y) ==
    /\ x.a = y.a
    /\ SurdSign(x) = SurdSign(y)
    /\ SurdSign(x) # 0 =>
          BigCmp(BigProduct(<<Abs(x.b[1]), Abs(x.b[1]), Abs(x.sim.dot), Abs(x.sim.dot),
                              y.b[2], y.b[2], y.sim.pp, y.sim.tt>>),
                 BigProduct(<<Abs(y.b[1]), Abs(y.b[1]), Abs(y.sim.dot), Abs(y.sim.dot),
                              x.b[2], x.b[2], x.sim.pp, x.sim.tt>>)) = 0

-----------------------------------------------------------------------------
(* Configuration, lines 36-59 *)

\* WEIGHTS, in hundredths
WEIGHT_DNA_MATCH == 60
WEIGHT_GAP_FILLING == 30
WEIGHT_ROLE_FIT == 10

DNA_DIMENSIONS ==
    <<"progression", "creation", "finishing", "pressing", "possession", "dribbling">>

Dims == {DNA_DIMENSIONS[i] : i \in 1..Len(DNA_DIMENSIONS)}

WEAKNESS_THRESHOLD == 95

-----------------------------------------------------------------------------
(* Results of a call: a value, or the exception it raised *)

Ok(v) == [err |-> "none", val |-> v, key |-> ""]
Raise(e, k) == [err |-> e, val |-> RInt(0), key |-> k]
IsOk(r) == r.err = "none"
NoCall == [err |-> "nocall", val |-> RInt(0), key |-> ""]

-----------------------------------------------------------------------------
(* DimensionScorer: calculate_player_dna_score, lines 86-141 *)

\* the metrics a dimension's formula reads from the player record
PlayerMetrics(d) ==
    CASE d = "progression" ->
            {"progressive_passes_p90", "progressive_carries_p90", "touches_att_third_p90"}
      [] d = "creation" -> {"xA_p90", "shot_assists_p90", "key_passes_p90"}
      [] d = "finishing" -> {"xG_p90", "shots_p90"}
      [] d = "pressing" -> {"pressures_p90", "tackles_p90", "interceptions_p90"}
      [] d = "possession" -> {"pass_completion_pct", "touches_att_third_p90"}
      [] d = "dribbling" ->
            {"dribbles_p90", "dribbles_successful_p90", "dribble_success_pct"}
      [] OTHER -> {}

Metrics == UNION {PlayerMetrics(d) : d \in Dims}

\* Ratio with a zero divisor giving a quotient above every bound, which the
\* clamp turns into 1
Ratio_ZeroDivisorIsInfinite(p, b, m) ==
    IF m \notin DOMAIN p THEN Raise("KeyError", m)
    ELSE IF m \notin DOMAIN b THEN Raise("KeyError", m)
    ELSE IF b[m] = 0 THEN Ok(RInt(1))
    ELSE Ok(Rat(p[m], b[m]))

\* player[m] / benchmarks[m]: a KeyError for a key the mapping lacks, a
\* ZeroDivisionError for a zero divisor
Ratio(p, b, m) ==
    IF m \notin DOMAIN p THEN Raise("KeyError", m)
    ELSE IF m \notin DOMAIN b THEN Raise("KeyError", m)
    ELSE IF b[m] = 0 THEN Raise("ZeroDivisionError", m)
    ELSE Ok(Rat(p[m], b[m]))

\* SubTerm without the clamp of the ratio at 1.0
SubTermUnclamped(p, b, m, w) ==
    LET q == Ratio(p, b, m)
    IN  IF IsOk(q) THEN Ok(RMul(q.val, RInt(w))) ELSE q

\* min(player[m] / benchmarks[m], 1.0) * w
SubTerm(p, b, m, w) ==
    LET q == Ratio(p, b, m)
    IN  IF IsOk(q) THEN Ok(RMul(RMin(q.val, RInt(1)), RInt(w))) ELSE q

\* ShotQuality without the test of line 111: the quotient by shots_p90 is
\* computed for every record
ShotQualityUnguarded(p, b) ==
    IF "xG_p90" \notin DOMAIN p THEN Raise("KeyError", "xG_p90")
    ELSE IF "shots_p90" \notin DOMAIN p THEN Raise("KeyError", "shots_p90")
    ELSE IF p["shots_p90"] = 0 THEN Raise("ZeroDivisionError", "shots_p90")
    ELSE IF "xG_p90" \notin DOMAIN b THEN Raise("KeyError", "xG_p90")
    ELSE IF "shots_p90" \notin DOMAIN b THEN Raise("KeyError", "shots_p90")
    ELSE IF b["shots_p90"] = 0 THEN Raise("ZeroDivisionError", "shots_p90")
    ELSE IF b["xG_p90"] = 0 THEN Raise("ZeroDivisionError", "xG_p90")
    ELSE LET player_shot_quality == Rat(p["xG_p90"], p["shots_p90"])
             benchmark_shot_quality == Rat(b["xG_p90"], b["shots_p90"])
         IN  Ok(RMul(RMin(RDiv(player_shot_quality, benchmark_shot_quality),
                          RInt(1)), RInt(40)))

\* the shot-quality sub-term of finishing, lines 112-116
ShotQuality(p, b) ==
    IF "shots_p90" \notin DOMAIN p THEN Raise("KeyError", "shots_p90")
    ELSE IF ~(p["shots_p90"] > 0) THEN Ok(RInt(0))
    ELSE IF "xG_p90" \notin DOMAIN p THEN Raise("KeyError", "xG_p90")
    ELSE IF "xG_p90" \notin DOMAIN b THEN Raise("KeyError", "xG_p90")
    ELSE IF "shots_p90" \notin DOMAIN b THEN Raise("KeyError", "shots_p90")
    ELSE IF b["shots_p90"] = 0 THEN Raise("ZeroDivisionError", "shots_p90")
    ELSE IF b["xG_p90"] = 0 THEN Raise("ZeroDivisionError", "xG_p90")
    ELSE LET player_shot_quality == Rat(p["xG_p90"], p["shots_p90"])
             benchmark_shot_quality == Rat(b["xG_p90"], b["shots_p90"])
         IN  Ok(RMul(RMin(RDiv(player_shot_quality, benchmark_shot_quality),
                          RInt(1)), RInt(40)))

\* SubTerms with the weights of progression (40/30/30) copied to dribbling
SubTermsDribblingAsProgression(p, b, d) ==
    CASE d = "progression" ->
            <<SubTerm(p, b, "progressive_passes_p90", 40),
              SubTerm(p, b, "progressive_carries_p90", 30),
              SubTerm(p, b, "touches_att_third_p90", 30)>>
      [] d = "creation" ->
            <<SubTerm(p, b, "xA_p90", 50),
              SubTerm(p, b, "shot_assists_p90", 30),
              SubTerm(p, b, "key_passes_p90", 20)>>
      [] d = "finishing" ->
            <<SubTerm(p, b, "xG_p90", 60), ShotQuality(p, b)>>
      [] d = "pressing" ->
            <<SubTerm(p, b, "pressures_p90", 60),
              SubTerm(p, b, "tackles_p90", 20),
              SubTerm(p, b, "interceptions_p90", 20)>>
      [] d = "possession" ->
            <<SubTerm(p, b, "pass_completion_pct", 60),
              SubTerm(p, b, "touches_att_third_p90", 40)>>
      [] d = "dribbling" ->
            <<SubTerm(p, b, "dribbles_p90", 40),
              SubTerm(p, b, "dribbles_successful_p90", 30),
              SubTerm(p, b, "dribble_success_pct", 30)>>
      [] OTHER -> <<>>

\* the sub-terms of a dimension, in the order the code evaluates them
SubTerms(p, b, d) ==
    CASE d = "progression" ->
            <<SubTerm(p, b, "progressive_passes_p90", 40),
              SubTerm(p, b, "progressive_carries_p90", 30),
              SubTerm(p, b, "touches_att_third_p90", 30)>>
      [] d = "creation" ->
            <<SubTerm(p, b, "xA_p90", 50),
              SubTerm(p, b, "shot_assists_p90", 30),
              SubTerm(p, b, "key_passes_p90", 20)>>
      [] d = "finishing" ->
            <<SubTerm(p, b, "xG_p90", 60), ShotQuality(p, b)>>
      [] d = "pressing" ->
            <<SubTerm(p, b, "pressures_p90", 60),
              SubTerm(p, b, "tackles_p90", 20),
              SubTerm(p, b, "interceptions_p90", 20)>>
      [] d = "possession" ->
            <<SubTerm(p, b, "pass_completion_pct", 60),
              SubTerm(p, b, "touches_att_third_p90", 40)>>
      [] d = "dribbling" ->
            <<SubTerm(p, b, "dribbles_p90", 40),
              SubTerm(p, b, "dribbles_successful_p90", 35),
              SubTerm(p, b, "dribble_success_pct", 25)>>
      [] OTHER -> <<>>

\* the first exception of a sequence of evaluations, or the sum of the values
SumOrRaise(ts) ==
    LET bad == {i \in 1..Len(ts) : ~IsOk(ts[i])}
    IN  IF bad # {}
        THEN ts[CHOOSE i \in bad : \A j \in bad : i <= j]
        ELSE Ok(RSum([i \in 1..Len(ts) |-> ts[i].val]))

\* calculate_player_dna_score scoring an unknown dimension name 0
calculate_player_dna_score_UnknownIsZero(p, b, d) ==
    IF d \in Dims THEN SumOrRaise(SubTerms(p, b, d))
    ELSE Ok(RInt(0))

calculate_player_dna_score(p, b, d) ==
    IF d \in Dims THEN SumOrRaise(SubTerms(p, b, d))
    ELSE Raise("ValueError", d)

-----------------------------------------------------------------------------
(* DnaProfileBuilder, lines 144-170 *)

\* calculate_player_dna_vector: the six scores in the order of DNA_DIMENSIONS;
\* the first exception a dimension raises ends the loop
calculate_player_dna_vector(p, b) ==
    LET scores == [i \in 1..Len(DNA_DIMENSIONS) |->
                      calculate_player_dna_score(p, b, DNA_DIMENSIONS[i])]
        bad == {i \in 1..Len(DNA_DIMENSIONS) : ~IsOk(scores[i])}
    IN  IF bad # {}
        THEN scores[CHOOSE i \in bad : \A j \in bad : i <= j]
        ELSE Ok([d \in Dims |->
                    scores[CHOOSE i \in 1..Len(DNA_DIMENSIONS) : DNA_DIMENSIONS[i] = d].val])

\* extract_america_dna_vector: the team's scores in the order of
\* DNA_DIMENSIONS; a KeyError for the first dimension the profile lacks
\* extract_america_dna_vector reading a missing dimension as 0
extract_america_dna_vector_MissingIsZero(dna) ==
    Ok([i \in 1..Len(DNA_DIMENSIONS) |->
           IF DNA_DIMENSIONS[i] \in DOMAIN dna THEN dna[DNA_DIMENSIONS[i]] ELSE 0])

extract_america_dna_vector(dna) ==
    LET bad == {i \in 1..Len(DNA_DIMENSIONS) : DNA_DIMENSIONS[i] \notin DOMAIN dna}
    IN  IF bad # {}
        THEN Raise("KeyError", DNA_DIMENSIONS[CHOOSE i \in bad : \A j \in bad : i <= j])
        ELSE Ok([i \in 1..Len(DNA_DIMENSIONS) |-> dna[DNA_DIMENSIONS[i]]])

-----------------------------------------------------------------------------
(* DNA-Match: calculate_dna_match_score, lines 173-194 *)

RECURSIVE LCMOfDenominators(_)
LCMOfDenominators(rs) ==
    IF rs = <<>> THEN 1 ELSE LCM(Head(rs)[2], LCMOfDenominators(Tail(rs)))

RECURSIVE Dot(_, _)
Dot(x, y) == IF x = <<>> THEN 0 ELSE Head(x) * Head(y) + Dot(Tail(x), Tail(y))

\* cosine_similarity without the normalisation of the player's row
cosine_similarity_PlayerNotNormalised(x, y) ==
    LET l == LCMOfDenominators(x)
        xi == [i \in 1..Len(x) |-> x[i][1] * (l \div x[i][2])]
    IN  [dot |-> Dot(xi, y), pp |-> l * l, tt |-> Dot(y, y)]

\* sklearn's cosine_similarity of two rows: each row is divided by its norm,
\* a zero norm being replaced by 1 (the row stays zero), and the similarity is
\* the dot product of the two normalised rows.  x is a row of rationals, y a
\* row of integers; x times the common denominator of its entries has the
\* same direction as x.
cosine_similarity(x, y) ==
    LET l == LCMOfDenominators(x)
        xi == [i \in 1..Len(x) |-> x[i][1] * (l \div x[i][2])]
    IN  [dot |-> Dot(xi, y), pp |-> Dot(xi, xi), tt |-> Dot(y, y)]

\* calculate_dna_match_score with similarity + 1 / 2 * 100 for
\* (similarity + 1) / 2 * 100
calculate_dna_match_score_Precedence(pv, av) ==
    LET player_v == [i \in 1..Len(DNA_DIMENSIONS) |-> pv[DNA_DIMENSIONS[i]]]
        similarity == NumOfSim(cosine_similarity(player_v, av))
    IN  Ok(NumAddRat(similarity, RMul(Rat(1, 2), RInt(100))))

\* calculate_dna_match_score with dot / (norm * norm) computed without the
\* guard for a zero norm
calculate_dna_match_score_Unguarded(pv, av) ==
    LET player_v == [i \in 1..Len(DNA_DIMENSIONS) |-> pv[DNA_DIMENSIONS[i]]]
        sim == cosine_similarity(player_v, av)
        score == NumMulRat(NumDivRat(NumAddRat(NumOfSim(sim), RInt(1)), RInt(2)),
                           RInt(100))
    IN  IF sim.pp = 0 \/ sim.tt = 0 THEN Raise("ZeroDivisionError", "norm")
        ELSE Ok(score)

\* calculate_dna_match_score with similarity * 100 for
\* (similarity + 1) / 2 * 100
calculate_dna_match_score_Unshifted(pv, av) ==
    LET player_v == [i \in 1..Len(DNA_DIMENSIONS) |-> pv[DNA_DIMENSIONS[i]]]
        similarity == NumOfSim(cosine_similarity(player_v, av))
    IN  Ok(NumMulRat(similarity, RInt(100)))

\* player_vector is the dict calculate_player_dna_vector built, whose values
\* are in the order of DNA_DIMENSIONS
calculate_dna_match_score(pv, av) ==
    LET player_v == [i \in 1..Len(DNA_DIMENSIONS) |-> pv[DNA_DIMENSIONS[i]]]
        similarity == NumOfSim(cosine_similarity(player_v, av))
        score == NumMulRat(NumDivRat(NumAddRat(similarity, RInt(1)), RInt(2)), RInt(100))
    IN  Ok(score)

-----------------------------------------------------------------------------
(* WeaknessAnalyzer: identify_team_weaknesses, lines 197-211 *)

RECURSIVE WeaknessesFrom(_, _, _)
\* the loop over DNA_DIMENSIONS from position i on: the dict's entries in the
\* order they are inserted
WeaknessesFrom(dna, th, i) ==
    IF i > Len(DNA_DIMENSIONS) THEN <<>>
    ELSE LET score == dna[DNA_DIMENSIONS[i]]
         IN  (IF score < th
                 THEN <<[dimension |-> DNA_DIMENSIONS[i], gap |-> th - score]>>
                 ELSE <<>>)
             \o WeaknessesFrom(dna, th, i + 1)

RECURSIVE WeaknessesFromLe(_, _, _)
WeaknessesFromLe(dna, th, i) ==
    IF i > Len(DNA_DIMENSIONS) THEN <<>>
    ELSE LET score == dna[DNA_DIMENSIONS[i]]
         IN  (IF score <= th
                 THEN <<[dimension |-> DNA_DIMENSIONS[i], gap |-> th - score]>>
                 ELSE <<>>)
             \o WeaknessesFromLe(dna, th, i + 1)

\* identify_team_weaknesses with score <= threshold for score < threshold
identify_team_weaknesses_Le(dna, th) == Ok(WeaknessesFromLe(dna, th, 1))

identify_team_weaknesses(dna, th) ==
    LET bad == {i \in 1..Len(DNA_DIMENSIONS) : DNA_DIMENSIONS[i] \notin DOMAIN dna}
    IN  IF bad # {}
        THEN Raise("KeyError", DNA_DIMENSIONS[CHOOSE i \in bad : \A j \in bad : i <= j])
        ELSE Ok(WeaknessesFrom(dna, th, 1))

-----------------------------------------------------------------------------
(* Gap-Filling: calculate_gap_filling_score, lines 214-251 *)

\* total_gap_filled with the distance |player - team| in place of the
\* improvement max(0, player - team)
RECURSIVE TotalGapFilledAbsolute(_, _, _)
TotalGapFilledAbsolute(pv, dna, w) ==
    IF w = <<>> THEN RInt(0)
    ELSE LET america_score == dna[Head(w).dimension]
             player_score == pv[Head(w).dimension]
             diff == RSub(player_score, RInt(america_score))
             improvement == RMax(diff, RSub(RInt(0), diff))
             weighted_improvement == RMul(improvement, RInt(Head(w).gap))
         IN  RAdd(weighted_improvement, TotalGapFilledAbsolute(pv, dna, Tail(w)))

RECURSIVE TotalGapFilled(_, _, _)
TotalGapFilled(pv, dna, w) ==
    IF w = <<>> THEN RInt(0)
    ELSE LET america_score == dna[Head(w).dimension]
             player_score == pv[Head(w).dimension]
             improvement == RMax(RInt(0), RSub(player_score, RInt(america_score)))
             weighted_improvement == RMul(improvement, RInt(Head(w).gap))
         IN  RAdd(weighted_improvement, TotalGapFilled(pv, dna, Tail(w)))

\* total_possible_gap with 100 in place of the team's room 100 - score
RECURSIVE TotalPossibleGapFullScale(_, _)
TotalPossibleGapFullScale(dna, w) ==
    IF w = <<>> THEN 0
    ELSE Head(w).gap * 100 + TotalPossibleGapFullScale(dna, Tail(w))

RECURSIVE TotalPossibleGap(_, _)
TotalPossibleGap(dna, w) ==
    IF w = <<>> THEN 0
    ELSE Head(w).gap * (100 - dna[Head(w).dimension]) + TotalPossibleGap(dna, Tail(w))

\* calculate_gap_filling_score returning 0 for an empty Weakness Set
calculate_gap_filling_score_EmptyIsZero(pv, dna, w) ==
    IF w = <<>> THEN Ok(RInt(0))
    ELSE LET total_gap_filled == TotalGapFilled(pv, dna, w)
             total_possible_gap == TotalPossibleGap(dna, w)
             score == IF total_possible_gap > 0
                         THEN RMul(RDiv(total_gap_filled, RInt(total_possible_gap)),
                                   RInt(100))
                         ELSE RInt(50)
         IN  Ok(RMin(score, RInt(100)))

\* calculate_gap_filling_score returning the score without the clamp at 100
calculate_gap_filling_score_Unclamped(pv, dna, w) ==
    IF w = <<>> THEN Ok(RInt(50))
    ELSE LET total_gap_filled == TotalGapFilled(pv, dna, w)
             total_possible_gap == TotalPossibleGap(dna, w)
             score == IF total_possible_gap > 0
                         THEN RMul(RDiv(total_gap_filled, RInt(total_possible_gap)),
                                   RInt(100))
                         ELSE RInt(50)
         IN  Ok(score)

\* calculate_gap_filling_score with the fallback of 50 taken whenever the
\* player improves on no weak dimension
calculate_gap_filling_score_NoGainIsFallback(pv, dna, w) ==
    IF w = <<>> THEN Ok(RInt(50))
    ELSE LET total_gap_filled == TotalGapFilled(pv, dna, w)
             total_possible_gap == TotalPossibleGap(dna, w)
             score == IF total_possible_gap > 0 /\ RLt(RInt(0), total_gap_filled)
                         THEN RMul(RDiv(total_gap_filled, RInt(total_possible_gap)),
                                   RInt(100))
                         ELSE RInt(50)
         IN  Ok(RMin(score, RInt(100)))

calculate_gap_filling_score(pv, dna, w) ==
    IF w = <<>> THEN Ok(RInt(50))
    ELSE LET total_gap_filled == TotalGapFilled(pv, dna, w)
             total_possible_gap == TotalPossibleGap(dna, w)
             score == IF total_possible_gap > 0
                         THEN RMul(RDiv(total_gap_filled, RInt(total_possible_gap)),
                                   RInt(100))
                         ELSE RInt(50)
         IN  Ok(RMin(score, RInt(100)))

-----------------------------------------------------------------------------
(* Role-Fit and the composite: lines 254-304 *)

calculate_role_fit_score(p) == RInt(70)

\* the result of calculate_fit_score for a given composite
FitResult(p, b, dna, av, w, combine(_, _, _)) ==
    LET player_dna_vector == calculate_player_dna_vector(p, b)
    IN  IF ~IsOk(player_dna_vector) THEN player_dna_vector
        ELSE
        LET dna_match == calculate_dna_match_score(player_dna_vector.val, av).val
            gap_filling == calculate_gap_filling_score(player_dna_vector.val, dna, w).val
            role_fit == calculate_role_fit_score(p)
        IN  Ok([fit_score |-> combine(dna_match, gap_filling, role_fit),
                dna_match_score |-> dna_match,
                gap_filling_score |-> gap_filling,
                role_fit_score |-> role_fit,
                player_dna |-> player_dna_vector.val])

\* calculate_fit_score with the role_fit term left out of the sum
calculate_fit_score_NoRoleFit(p, b, dna, av, w) ==
    LET combine(dna_match, gap_filling, role_fit) ==
            NumAddRat(NumMulRat(dna_match, Rat(WEIGHT_DNA_MATCH, 100)),
                      RMul(gap_filling, Rat(WEIGHT_GAP_FILLING, 100)))
    IN  FitResult(p, b, dna, av, w, combine)

\* calculate_fit_score with role_fit added without its weight
calculate_fit_score_UnweightedRoleFit(p, b, dna, av, w) ==
    LET combine(dna_match, gap_filling, role_fit) ==
            NumAddRat(
                NumAddRat(NumMulRat(dna_match, Rat(WEIGHT_DNA_MATCH, 100)),
                          RMul(gap_filling, Rat(WEIGHT_GAP_FILLING, 100))),
                role_fit)
    IN  FitResult(p, b, dna, av, w, combine)

calculate_fit_score(p, b, dna, av, w) ==
    LET player_dna_vector == calculate_player_dna_vector(p, b)
    IN  IF ~IsOk(player_dna_vector) THEN player_dna_vector
        ELSE
        LET dna_match == calculate_dna_match_score(player_dna_vector.val, av).val
            gap_filling == calculate_gap_filling_score(player_dna_vector.val, dna, w).val
            role_fit == calculate_role_fit_score(p)
            fit_score ==
                NumAddRat(
                    NumAddRat(NumMulRat(dna_match, Rat(WEIGHT_DNA_MATCH, 100)),
                              RMul(gap_filling, Rat(WEIGHT_GAP_FILLING, 100))),
                    RMul(role_fit, Rat(WEIGHT_ROLE_FIT, 100)))
        IN  Ok([fit_score |-> fit_score,
                dna_match_score |-> dna_match,
                gap_filling_score |-> gap_filling,
                role_fit_score |-> role_fit,
                player_dna |-> player_dna_vector.val])

-----------------------------------------------------------------------------
(* Specification of the DimensionScorer: one call of                      *)
(* calculate_player_dna_score on a drawn record, table and dimension      *)

MetricValues == (0 - NegMetric)..MaxMetric
BenchValues == 0..MaxBench

\* a record that gives the metrics in `ms` the values `f` and every other
\* metric the value `other`
RecordOf(ms, f, other) == [m \in Metrics |-> IF m \in ms THEN f[m] ELSE other]

NoVector == [d \in Dims |-> RInt(0)]
NoProfile == [d \in Dims |-> 0]

\* main has not been entered
MainNotRun ==
    /\ pool = <<>>
    /\ players_df = <<>>
    /\ america_vector = <<>>
    /\ results = <<>>
    /\ results_sorted = <<>>
    /\ top_recommendations = <<>>
    /\ worst_recommendations = <<>>
    /\ files = <<>>
    /\ error = NoCall

\* names that are none of the six dimensions: another quality, a dimension in
\* another spelling, the empty name
UnknownDimensions == {"aerial", "Progression", ""}

InitDim ==
    /\ pc = "start"
    /\ dimension \in Dims \cup UnknownDimensions
    /\ \E f \in [PlayerMetrics(dimension) -> MetricValues] :
          player = RecordOf(PlayerMetrics(dimension), f, 0)
    /\ \E g \in [PlayerMetrics(dimension) -> BenchValues] :
          benchmarks = RecordOf(PlayerMetrics(dimension), g, 1)
    /\ america_dna = NoProfile
    /\ threshold = WEAKNESS_THRESHOLD
    /\ player_vector = NoVector
    /\ scale = RInt(1)
    /\ weaknesses = <<>>
    /\ ret = [score |-> NoCall, terms |-> <<>>]
    /\ MainNotRun

ScoreDimension ==
    /\ pc = "start"
    /\ pc' = "done"
    /\ ret' = [score |-> calculate_player_dna_score(player, benchmarks, dimension),
               terms |-> SubTerms(player, benchmarks, dimension)]
    /\ UNCHANGED <<dimension, player, benchmarks, america_dna, threshold,
                   player_vector, scale, weaknesses>>
    /\ UNCHANGED mainvars

NextDim == ScoreDimension

SpecDim == InitDim /\ [][NextDim]_vars

-----------------------------------------------------------------------------
(* Specification of DNA-Match: calculate_dna_match_score on a drawn player  *)
(* vector and on the same vector scaled, against a drawn team profile       *)

\* the team profile of the end-to-end scenarios of section 8
ExampleProfile ==
    [d \in Dims |->
        CASE d = "progression" -> 92 [] d = "creation" -> 97 [] d = "finishing" -> 98
          [] d = "pressing" -> 85 [] d = "possession" -> 96 [] d = "dribbling" -> 99]

\* a profile whose scores are all n
FlatProfile(n) == [d \in Dims |-> n]

RVec(v) == [d \in Dims |-> RInt(v[d])]
ScaleVector(v, c) == [d \in Dims |-> RMul(v[d], c)]
TimesProfile(k, v) == [d \in Dims |-> k * v[d]]

SmallProfiles == [Dims -> 0..MaxScore]

\* the whole factors up to MaxScale and their quotients by MaxScale
Scales == {Rat(n, d) : n \in 1..MaxScale, d \in {1, MaxScale}}

InitMatch ==
    /\ pc = "start"
    /\ dimension = "progression"
    /\ player = [m \in Metrics |-> 0]
    /\ benchmarks = [m \in Metrics |-> 1]
    /\ \E v \in SmallProfiles \cup {ExampleProfile} :
          /\ player_vector = RVec(v)
          /\ america_dna \in {ExampleProfile, FlatProfile(0), FlatProfile(1)}
                                \cup {TimesProfile(k, v) : k \in 1..MaxScale}
    /\ threshold = WEAKNESS_THRESHOLD
    /\ scale = RInt(1)
    /\ weaknesses = <<>>
    /\ ret = [plain |-> NoCall, scaled |-> NoCall]
    /\ MainNotRun

MatchPlain ==
    /\ pc = "start"
    /\ pc' = "plain"
    /\ ret' = [ret EXCEPT !.plain =
                  calculate_dna_match_score(player_vector,
                      extract_america_dna_vector(america_dna).val)]
    /\ UNCHANGED <<dimension, player, benchmarks, america_dna, threshold,
                   player_vector, scale, weaknesses>>
    /\ UNCHANGED mainvars

MatchScaled ==
    /\ pc = "plain"
    /\ pc' = "done"
    /\ scale' \in Scales
    /\ ret' = [ret EXCEPT !.scaled =
                  calculate_dna_match_score(ScaleVector(player_vector, scale'),
                      extract_america_dna_vector(america_dna).val)]
    /\ UNCHANGED <<dimension, player, benchmarks, america_dna, threshold,
                   player_vector, weaknesses>>
    /\ UNCHANGED mainvars

NextMatch == MatchPlain \/ MatchScaled

SpecMatch == InitMatch /\ [][NextMatch]_vars

-----------------------------------------------------------------------------
(* Specification of the WeaknessAnalyzer and Gap-Filling: the Weakness Set  *)
(* of a drawn team profile and threshold, then calculate_gap_filling_score  *)
(* on a drawn player profile                                                *)

ShiftProfile(v, n) == [d \in Dims |-> v[d] + n]

\* the scenario's profile; the same with progression, pressing or dribbling
\* exactly at 95; teams at 0 and at 100
GapProfiles ==
    {ExampleProfile, ShiftProfile(ExampleProfile, 3), ShiftProfile(ExampleProfile, 10),
     ShiftProfile(ExampleProfile, 0 - 4), FlatProfile(0), FlatProfile(100)}

\* the configured threshold, the alternative its comment names, the largest
\* valid threshold and one beyond it
Thresholds == {WEAKNESS_THRESHOLD, WEAKNESS_THRESHOLD - 5, 100, 105}

PlayerLevels == {0} \cup {100 - 10 * k : k \in 0..MaxLevel}

\* the candidate of the scenarios of section 8: 100 on pressing and on
\* progression, the team's own score on every other dimension
CandidateProfile(dna) ==
    [d \in Dims |-> IF d \in {"pressing", "progression"} THEN 100 ELSE dna[d]]

InitGap ==
    /\ pc = "start"
    /\ dimension = "progression"
    /\ player = [m \in Metrics |-> 0]
    /\ benchmarks = [m \in Metrics |-> 1]
    /\ america_dna \in GapProfiles
    /\ threshold \in Thresholds
    /\ player_vector = NoVector
    /\ scale = RInt(1)
    /\ weaknesses = <<>>
    /\ ret = [gap |-> NoCall]
    /\ MainNotRun

IdentifyWeaknesses ==
    /\ pc = "start"
    /\ pc' = "weak"
    /\ weaknesses' = identify_team_weaknesses(america_dna, threshold).val
    /\ UNCHANGED <<dimension, player, benchmarks, america_dna, threshold,
                   player_vector, scale, ret>>
    /\ UNCHANGED mainvars

GapFilling ==
    /\ pc = "weak"
    /\ pc' = "done"
    /\ \E v \in [Dims -> PlayerLevels] \cup {CandidateProfile(america_dna)} :
          player_vector' = RVec(v)
    /\ ret' = [gap |-> calculate_gap_filling_score(player_vector', america_dna, weaknesses)]
    /\ UNCHANGED <<dimension, player, benchmarks, america_dna, threshold,
                   scale, weaknesses>>
    /\ UNCHANGED mainvars

NextGap == IdentifyWeaknesses \/ GapFilling

SpecGap == InitGap /\ [][NextGap]_vars

-----------------------------------------------------------------------------
(* Specification of Gap-Filling on two player profiles that differ on one   *)
(* weak dimension: the calls of SpecGap, then calculate_gap_filling_score   *)
(* on the same profile with a higher score on a drawn weak dimension        *)

MonoProfiles == {ExampleProfile, FlatProfile(0)}
MonoThresholds == {WEAKNESS_THRESHOLD, 105}

InitMono ==
    /\ pc = "start"
    /\ dimension = "progression"
    /\ player = [m \in Metrics |-> 0]
    /\ benchmarks = [m \in Metrics |-> 1]
    /\ america_dna \in MonoProfiles
    /\ threshold \in MonoThresholds
    /\ player_vector = NoVector
    /\ scale = RInt(1)
    /\ weaknesses = <<>>
    /\ ret = [gap |-> NoCall]
    /\ MainNotRun

GapFillingRaised ==
    /\ pc = "done"
    /\ pc' = "raised"
    /\ \E i \in 1..Len(weaknesses) : dimension' = weaknesses[i].dimension
    /\ \E x \in PlayerLevels :
          /\ RLt(player_vector[dimension'], RInt(x))
          /\ ret' = [gap |-> ret.gap,
                     raised_vector |-> [player_vector EXCEPT ![dimension'] = RInt(x)],
                     raised |-> calculate_gap_filling_score(
                                    [player_vector EXCEPT ![dimension'] = RInt(x)],
                                    america_dna, weaknesses)]
    /\ UNCHANGED <<player, benchmarks, america_dna, threshold,
                   player_vector, scale, weaknesses>>
    /\ UNCHANGED mainvars

NextMono == IdentifyWeaknesses \/ GapFilling \/ GapFillingRaised

SpecMono == InitMono /\ [][NextMono]_vars

-----------------------------------------------------------------------------
(* Specification of the composite: calculate_fit_score on a drawn player    *)
(* record, benchmark table and team profile, with the team vector and the   *)
(* Weakness Set main passes                                                 *)

\* the metrics that share a level in a drawn pool record
MetricGroups ==
    <<{"progressive_passes_p90", "progressive_carries_p90", "touches_att_third_p90"},
      {"xA_p90", "shot_assists_p90", "key_passes_p90", "pass_completion_pct"},
      {"xG_p90"},
      {"shots_p90"},
      {"pressures_p90", "tackles_p90", "interceptions_p90",
       "dribbles_p90", "dribbles_successful_p90", "dribble_success_pct"}>>

GroupOf(m) == CHOOSE i \in 1..Len(MetricGroups) : m \in MetricGroups[i]

PoolRecords ==
    {[m \in Metrics |-> l[GroupOf(m)]] : l \in [1..Len(MetricGroups) -> 0..MaxPoolMetric]}

\* sets of metrics a record can lack: one metric, metrics of two dimensions,
\* metrics of three dimensions
MissingKeySets ==
    {{"tackles_p90"},
     {"tackles_p90", "xA_p90"},
     {"dribbles_p90", "xG_p90", "progressive_carries_p90"}}

\* records in which the metrics of one of these sets are absent
IncompleteRecords == {[m \in Metrics \ ks |-> 1] : ks \in MissingKeySets}

\* a record whose metrics are all below zero
NegativeRecord == [m \in Metrics |-> 0 - 1]

InitFit ==
    /\ pc = "start"
    /\ dimension = "progression"
    /\ player \in PoolRecords \cup IncompleteRecords \cup {NegativeRecord}
    /\ benchmarks \in {[m \in Metrics |-> k] : k \in 1..MaxBench}
    /\ america_dna \in {ExampleProfile, ShiftProfile(ExampleProfile, 10), FlatProfile(0)}
    /\ threshold = WEAKNESS_THRESHOLD
    /\ player_vector = NoVector
    /\ scale = RInt(1)
    /\ weaknesses = <<>>
    /\ ret = [fit |-> NoCall]
    /\ MainNotRun

ScorePlayer ==
    /\ pc = "start"
    /\ pc' = "done"
    /\ weaknesses' = identify_team_weaknesses(america_dna, threshold).val
    /\ ret' = [fit |-> calculate_fit_score(player, benchmarks, america_dna,
                           extract_america_dna_vector(america_dna).val, weaknesses')]
    /\ UNCHANGED <<dimension, player, benchmarks, america_dna, threshold,
                   player_vector, scale>>
    /\ UNCHANGED mainvars

NextFit == ScorePlayer

SpecFit == InitFit /\ [][NextFit]_vars

-----------------------------------------------------------------------------
(* Helpers of main, lines 307-374 and 406-516 *)

\* round(x, 2) of a rational: the nearest hundredth, a tie going to the even
\* hundredth
round2(r) ==
    LET n == 100 * r[1]
        k == n \div r[2]
        twice_rest == 2 * (n - k * r[2])
    IN  IF twice_rest > r[2] \/ (twice_rest = r[2] /\ k % 2 = 1)
        THEN Rat(k + 1, 100) ELSE Rat(k, 100)

\* the k with k / 100 <= x < (k + 1) / 100, given lo / 100 <= x < hi / 100
RECURSIVE FloorHundredths(_, _, _)
FloorHundredths(x, lo, hi) ==
    IF hi <= lo + 1 THEN lo
    ELSE LET mid == (lo + hi) \div 2
         IN  IF NumGeRat(x, Rat(mid, 100)) THEN FloorHundredths(x, mid, hi)
             ELSE FloorHundredths(x, lo, mid)

\* round(x, 2) of a value a + b * sim between -100 and 100
round2Num(x) ==
    LET k == FloorHundredths(x, 0 - BASE, BASE + 1)
        c == NumCmpRat(x, Rat(2 * k + 1, 200))
    IN  IF c > 0 \/ (c = 0 /\ k % 2 = 1) THEN Rat(k + 1, 100) ELSE Rat(k, 100)

\* str.capitalize() of a dimension name
Capitalize(d) ==
    CASE d = "progression" -> "Progression" [] d = "creation" -> "Creation"
      [] d = "finishing" -> "Finishing" [] d = "pressing" -> "Pressing"
      [] d = "possession" -> "Possession" [] d = "dribbling" -> "Dribbling"

\* s[:n]
Prefix(s, n) == SubSeq(s, 1, IF n < Len(s) THEN n ELSE Len(s))

\* s[-(n + 1):]: the slice that starts one entry early
Suffix_OneMore(s, n) ==
    IF n + 1 >= Len(s) THEN s ELSE SubSeq(s, Len(s) - n, Len(s))

\* s[-n:]
Suffix(s, n) ==
    IF n = 0 \/ n >= Len(s) THEN s ELSE SubSeq(s, Len(s) - n + 1, Len(s))

\* list.reverse()
Reverse(s) == [i \in 1..Len(s) |-> s[Len(s) + 1 - i]]

\* the names of the dimensions of `ds`, capitalised
Capitalized(ds) == [i \in 1..Len(ds) |-> Capitalize(ds[i])]

\* generate_recommendation_text listing every elite dimension
generate_recommendation_text_AllElite(scores, w) ==
    LET match ==
            IF NumGeRat(scores.dna_match_score, RInt(90))
                THEN << <<"Excellent tactical match with America's style">> >>
            ELSE IF NumGeRat(scores.dna_match_score, RInt(80))
                THEN << <<"Strong tactical compatibility">> >>
            ELSE <<>>
        IsElite(d) == RLe(RInt(90), scores.player_dna[d])
        elite_dimensions == Capitalized(SelectSeq(DNA_DIMENSIONS, IsElite))
        elite ==
            IF elite_dimensions # <<>>
                THEN << <<"Elite in: ">> \o elite_dimensions >>
                ELSE <<>>
        fills ==
            IF RLe(RInt(70), scores.gap_filling_score) /\ w # <<>>
                THEN << <<"Strengthens team's ", w[1].dimension>> >>
                ELSE <<>>
        reasons == match \o elite \o fills
    IN  IF reasons = <<>> THEN << <<"Solid all-around player">> >> ELSE reasons

\* A text is the sequence of its reasons (joined by "; " in the program); a
\* reason is its phrase followed by the names it lists (joined by ", ").
generate_recommendation_text(scores, w) ==
    LET match ==
            IF NumGeRat(scores.dna_match_score, RInt(90))
                THEN << <<"Excellent tactical match with America's style">> >>
            ELSE IF NumGeRat(scores.dna_match_score, RInt(80))
                THEN << <<"Strong tactical compatibility">> >>
            ELSE <<>>
        IsElite(d) == RLe(RInt(90), scores.player_dna[d])
        elite_dimensions == Capitalized(SelectSeq(DNA_DIMENSIONS, IsElite))
        elite ==
            IF elite_dimensions # <<>>
                THEN << <<"Elite in: ">> \o Prefix(elite_dimensions, 2) >>
                ELSE <<>>
        fills ==
            IF RLe(RInt(70), scores.gap_filling_score) /\ w # <<>>
                THEN << <<"Strengthens team's ", w[1].dimension>> >>
                ELSE <<>>
        reasons == match \o elite \o fills
    IN  IF reasons = <<>> THEN << <<"Solid all-around player">> >> ELSE reasons

generate_why_avoid(p) ==
    LET mismatch ==
            IF RLt(p.dna_match_score, RInt(70))
                THEN << <<"Poor tactical compatibility">> >> ELSE <<>>
        IsWeak(d) == RLt(p.player_dna[d], RInt(50))
        weak_dims == Capitalized(SelectSeq(DNA_DIMENSIONS, IsWeak))
        weak ==
            IF weak_dims # <<>>
                THEN << <<"Weak in: ">> \o Prefix(weak_dims, 3) >> ELSE <<>>
        nogap ==
            IF RLt(p.gap_filling_score, RInt(30))
                THEN << <<"Doesn't address team weaknesses">> >> ELSE <<>>
        reasons == mismatch \o weak \o nogap
    IN  IF reasons = <<>>
            THEN << <<"Below-average across multiple dimensions">> >>
            ELSE reasons

\* players_df.dropna(): the rows that have no missing cell
dropna(df) ==
    LET Complete(row) == row.nan = {}
        kept == SelectSeq(df, Complete)
    IN  [i \in 1..Len(kept) |-> [name |-> kept[i].name, metrics |-> kept[i].vals]]

\* players_df.fillna(0): every row, its missing cells set to 0
fillna(df) ==
    [i \in 1..Len(df) |->
        [name |-> df[i].name,
         metrics |-> [m \in DOMAIN df[i].vals |->
                         IF m \in df[i].nan THEN 0 ELSE df[i].vals[m]]]]

\* the result main compiles for one player, lines 464-479 (the descriptive
\* columns team, position, minutes and matches are copied through and left out)
CompileResult(row, scores, w) ==
    [player_name |-> row.name,
     fit_score |-> round2Num(scores.fit_score),
     dna_match_score |-> round2Num(scores.dna_match_score),
     gap_filling_score |-> round2(scores.gap_filling_score),
     role_fit_score |-> round2(scores.role_fit_score),
     player_dna |-> [d \in Dims |-> round2(scores.player_dna[d])],
     why_good_fit |-> generate_recommendation_text(scores, w)]

\* r placed in front of the first result with a smaller or equal fit_score
RECURSIVE InsertBeforeEqual(_, _)
InsertBeforeEqual(s, r) ==
    IF s = <<>> THEN <<r>>
    ELSE IF RLt(r.fit_score, Head(s).fit_score)
        THEN <<Head(s)>> \o InsertBeforeEqual(Tail(s), r)
    ELSE <<r>> \o s

\* sorting by descending fit_score that puts equal scores in reverse order
RECURSIVE sorted_reverse_Unstable(_)
sorted_reverse_Unstable(rs) ==
    IF rs = <<>> THEN <<>>
    ELSE InsertBeforeEqual(sorted_reverse_Unstable(SubSeq(rs, 1, Len(rs) - 1)),
                           rs[Len(rs)])

\* r placed behind every result whose fit_score is at least r's
RECURSIVE InsertDescending(_, _)
InsertDescending(s, r) ==
    IF s = <<>> THEN <<r>>
    ELSE IF RLe(r.fit_score, Head(s).fit_score)
        THEN <<Head(s)>> \o InsertDescending(Tail(s), r)
    ELSE <<r>> \o s

\* sorted(results, key=lambda x: x['fit_score'], reverse=True): descending,
\* equal keys in the order of `results`
RECURSIVE sorted_reverse(_)
sorted_reverse(rs) ==
    IF rs = <<>> THEN <<>>
    ELSE InsertDescending(sorted_reverse(SubSeq(rs, 1, Len(rs) - 1)), rs[Len(rs)])

\* the rows of top_recommendations.csv and of worst_recommendations.csv
TopRows(rs) ==
    [i \in 1..Len(rs) |->
        [rank |-> i, player_name |-> rs[i].player_name, fit_score |-> rs[i].fit_score,
         dna_match |-> rs[i].dna_match_score, gap_filling |-> rs[i].gap_filling_score,
         why |-> rs[i].why_good_fit]]

WorstRows(rs) ==
    [i \in 1..Len(rs) |->
        [rank |-> i, player_name |-> rs[i].player_name, fit_score |-> rs[i].fit_score,
         dna_match |-> rs[i].dna_match_score, gap_filling |-> rs[i].gap_filling_score,
         why |-> generate_why_avoid(rs[i])]]

-----------------------------------------------------------------------------
(* Specification of the explanation: calculate_fit_score and               *)
(* generate_recommendation_text on a drawn player record, benchmark table  *)
(* and team profile, as one pass of the loop of main calls them            *)

InitText ==
    /\ pc = "start"
    /\ dimension = "progression"
    /\ player \in PoolRecords \cup IncompleteRecords
    /\ benchmarks \in {[m \in Metrics |-> k] : k \in 1..MaxBench}
    /\ america_dna \in GapProfiles
    /\ threshold = WEAKNESS_THRESHOLD
    /\ player_vector = NoVector
    /\ scale = RInt(1)
    /\ weaknesses = <<>>
    /\ ret = [fit |-> NoCall, text |-> <<>>]
    /\ MainNotRun

\* lines 453-464: the scores of the player, then the text
ExplainPlayer ==
    /\ pc = "start"
    /\ pc' = "done"
    /\ weaknesses' = identify_team_weaknesses(america_dna, threshold).val
    /\ \E scores \in {calculate_fit_score(player, benchmarks, america_dna,
                         extract_america_dna_vector(america_dna).val, weaknesses')} :
          ret' = [fit |-> scores,
                  text |-> IF IsOk(scores)
                               THEN generate_recommendation_text(scores.val, weaknesses')
                               ELSE <<>>]
    /\ UNCHANGED <<dimension, player, benchmarks, america_dna, threshold,
                   player_vector, scale>>
    /\ UNCHANGED mainvars

NextText == ExplainPlayer

SpecText == InitText /\ [][NextText]_vars

-----------------------------------------------------------------------------
(* Specification of main, lines 381-656: one run on drawn input files.  The *)
(* print statements are left out.                                           *)

\* the profile file without the score of one dimension
WithoutDimension(dna, d) == [e \in Dims \ {d} |-> dna[e]]

\* the benchmark file with every metric at the value k, and without one metric
FlatBenchmarks(k) == [m \in Metrics |-> k]
WithoutMetric(b, m) == [n \in DOMAIN b \ {m} |-> b[n]]

\* the input files of a run: the team profile, the benchmark table, the
\* columns of the pool file and the largest pool drawn with them.  One regular
\* configuration, one whose team has no weakness, and one per kind of
\* incomplete file.
MainConfigs ==
    {[dna |-> ExampleProfile, bench |-> FlatBenchmarks(2), columns |-> Metrics,
      most |-> MaxPool],
     [dna |-> ShiftProfile(ExampleProfile, 10), bench |-> FlatBenchmarks(2),
      columns |-> Metrics, most |-> MaxSmallPool],
     [dna |-> WithoutDimension(ExampleProfile, "pressing"),
      bench |-> FlatBenchmarks(2), columns |-> Metrics, most |-> MaxSmallPool],
     [dna |-> ExampleProfile, bench |-> WithoutMetric(FlatBenchmarks(2), "shots_p90"),
      columns |-> Metrics, most |-> MaxSmallPool],
     [dna |-> ExampleProfile, bench |-> WithoutMetric(FlatBenchmarks(2), "xG_p90"),
      columns |-> Metrics, most |-> MaxSmallPool],
     [dna |-> ExampleProfile, bench |-> FlatBenchmarks(2),
      columns |-> Metrics \ {"tackles_p90"}, most |-> MaxSmallPool]}

\* the kinds of pool rows: a player at every benchmark, a player at half of
\* every benchmark but at the benchmark in pressing, and a player at half of
\* every benchmark whose shots cell is missing
RowKinds == {"elite", "presser", "noshots"}

PoolRow(i, kind, columns) ==
    [name |-> i,
     vals |-> [m \in columns |->
                 IF kind = "elite" \/ (kind = "presser" /\ m \in PlayerMetrics("pressing"))
                     THEN 2 ELSE 1],
     nan |-> IF kind = "noshots" THEN {"shots_p90"} \cap columns ELSE {}]

Init ==
    /\ pc = "load"
    /\ \E c \in MainConfigs :
          /\ america_dna = c.dna
          /\ benchmarks = c.bench
          /\ \E n \in 0..c.most : \E kinds \in [1..n -> RowKinds] :
                pool = [i \in 1..n |-> PoolRow(i, kinds[i], c.columns)]
    /\ threshold = WEAKNESS_THRESHOLD
    /\ dimension = "progression"
    /\ player = [m \in Metrics |-> 0]
    /\ player_vector = NoVector
    /\ scale = RInt(1)
    /\ weaknesses = <<>>
    /\ ret = [fit |-> NoCall]
    /\ players_df = <<>>
    /\ america_vector = <<>>
    /\ results = <<>>
    /\ results_sorted = <<>>
    /\ top_recommendations = <<>>
    /\ worst_recommendations = <<>>
    /\ files = <<>>
    /\ error = NoCall

\* step 1, lines 388-412
LoadData ==
    /\ pc = "load"
    /\ pc' = "extract"
    /\ players_df' = fillna(pool)
    /\ UNCHANGED <<dimension, player, benchmarks, america_dna, threshold,
                   player_vector, scale, weaknesses, ret, pool, america_vector,
                   results, results_sorted, top_recommendations,
                   worst_recommendations, files, error>>

\* step 2, line 420
ExtractAmericaVector ==
    /\ pc = "extract"
    /\ LET r == extract_america_dna_vector(america_dna)
       IN  IF IsOk(r)
               THEN pc' = "weaknesses" /\ america_vector' = r.val /\ UNCHANGED error
               ELSE pc' = "error" /\ error' = r /\ UNCHANGED america_vector
    /\ UNCHANGED <<dimension, player, benchmarks, america_dna, threshold,
                   player_vector, scale, weaknesses, ret, pool, players_df,
                   results, results_sorted, top_recommendations,
                   worst_recommendations, files>>

\* step 3, line 433
IdentifyTeamWeaknesses ==
    /\ pc = "weaknesses"
    /\ LET r == identify_team_weaknesses(america_dna, WEAKNESS_THRESHOLD)
       IN  IF IsOk(r)
               THEN pc' = "score" /\ weaknesses' = r.val /\ UNCHANGED error
               ELSE pc' = "error" /\ error' = r /\ UNCHANGED weaknesses
    /\ UNCHANGED <<dimension, player, benchmarks, america_dna, threshold,
                   player_vector, scale, ret, pool, players_df, america_vector,
                   results, results_sorted, top_recommendations,
                   worst_recommendations, files>>

\* ScoreNextPlayer with a Weakness Set that scoring uses up: the weakness the
\* player was measured against first is dropped for the players that follow
ScoreNextPlayer_ConsumingWeakness ==
    /\ pc = "score"
    /\ Len(results) < Len(players_df)
    /\ player' = players_df[Len(results) + 1].metrics
    /\ ret' = [fit |-> calculate_fit_score(player', benchmarks, america_dna,
                                          america_vector, weaknesses)]
    /\ weaknesses' = IF weaknesses = <<>> THEN <<>> ELSE Tail(weaknesses)
    /\ IF IsOk(ret'.fit)
          THEN /\ results' = Append(results,
                                    CompileResult(players_df[Len(results) + 1],
                                                  ret'.fit.val, weaknesses))
               /\ UNCHANGED <<pc, error>>
          ELSE /\ pc' = "error"
               /\ error' = ret'.fit
               /\ UNCHANGED results
    /\ UNCHANGED <<dimension, benchmarks, america_dna, threshold,
                   player_vector, scale, pool, players_df,
                   america_vector, results_sorted, top_recommendations,
                   worst_recommendations, files>>

\* step 4, lines 453-481: one pass of the loop over players_df.iterrows()
ScoreNextPlayer ==
    /\ pc = "score"
    /\ Len(results) < Len(players_df)
    /\ player' = players_df[Len(results) + 1].metrics
    /\ ret' = [fit |-> calculate_fit_score(player', benchmarks, america_dna,
                                          america_vector, weaknesses)]
    /\ IF IsOk(ret'.fit)
          THEN /\ results' = Append(results,
                                    CompileResult(players_df[Len(results) + 1],
                                                  ret'.fit.val, weaknesses))
               /\ UNCHANGED <<pc, error>>
          ELSE /\ pc' = "error"
               /\ error' = ret'.fit
               /\ UNCHANGED results
    /\ UNCHANGED <<dimension, benchmarks, america_dna, threshold,
                   player_vector, scale, weaknesses, pool, players_df,
                   america_vector, results_sorted, top_recommendations,
                   worst_recommendations, files>>

\* step 5 entered while rows are still waiting to be scored
RankResults_BeforeLoopEnds ==
    /\ pc = "score"
    /\ Len(results) <= Len(players_df)
    /\ pc' = "worst"
    /\ results_sorted' = sorted_reverse(results)
    /\ top_recommendations' = Prefix(results_sorted', TOP_N)
    /\ UNCHANGED <<dimension, player, benchmarks, america_dna, threshold,
                   player_vector, scale, weaknesses, ret, pool, players_df,
                   america_vector, results, worst_recommendations, files, error>>

\* step 5, lines 492-495, once the loop has run out of rows
RankResults ==
    /\ pc = "score"
    /\ Len(results) = Len(players_df)
    /\ pc' = "worst"
    /\ results_sorted' = sorted_reverse(results)
    /\ top_recommendations' = Prefix(results_sorted', TOP_N)
    /\ UNCHANGED <<dimension, player, benchmarks, america_dna, threshold,
                   player_vector, scale, weaknesses, ret, pool, players_df,
                   america_vector, results, worst_recommendations, files, error>>

\* step 5B, lines 515-516
SelectWorst ==
    /\ pc = "worst"
    /\ pc' = "save_json"
    /\ worst_recommendations' = Reverse(Suffix(results_sorted, TOP_N))
    /\ UNCHANGED <<dimension, player, benchmarks, america_dna, threshold,
                   player_vector, scale, weaknesses, ret, pool, players_df,
                   america_vector, results, results_sorted, top_recommendations,
                   files, error>>

\* step 6, lines 562-576
SaveJson ==
    /\ pc = "save_json"
    /\ pc' = "save_top"
    /\ files' = Append(files, [name |-> "player_fit_scores.json",
                               rows |-> results_sorted,
                               total_players_analyzed |-> Len(results)])
    /\ UNCHANGED <<dimension, player, benchmarks, america_dna, threshold,
                   player_vector, scale, weaknesses, ret, pool, players_df,
                   america_vector, results, results_sorted, top_recommendations,
                   worst_recommendations, error>>

\* step 6, lines 582-602
SaveTopCsv ==
    /\ pc = "save_top"
    /\ pc' = "save_worst"
    /\ files' = Append(files, [name |-> "top_recommendations.csv",
                               rows |-> TopRows(top_recommendations)])
    /\ UNCHANGED <<dimension, player, benchmarks, america_dna, threshold,
                   player_vector, scale, weaknesses, ret, pool, players_df,
                   america_vector, results, results_sorted, top_recommendations,
                   worst_recommendations, error>>

\* step 6, lines 605-624
SaveWorstCsv ==
    /\ pc = "save_worst"
    /\ pc' = "summary"
    /\ files' = Append(files, [name |-> "worst_recommendations.csv",
                               rows |-> WorstRows(worst_recommendations)])
    /\ UNCHANGED <<dimension, player, benchmarks, america_dna, threshold,
                   player_vector, scale, weaknesses, ret, pool, players_df,
                   america_vector, results, results_sorted, top_recommendations,
                   worst_recommendations, error>>

\* the summary with a test for empty extracts before it reads them
Summary_Guarded ==
    /\ pc = "summary"
    /\ pc' = "done"
    /\ UNCHANGED <<dimension, player, benchmarks, america_dna, threshold,
                   player_vector, scale, weaknesses, ret, pool, players_df,
                   america_vector, results, results_sorted, top_recommendations,
                   worst_recommendations, files, error>>

\* the summary, lines 636-644: it reads the first entry of both extracts
Summary ==
    /\ pc = "summary"
    /\ IF top_recommendations = <<>>
           THEN pc' = "error" /\ error' = Raise("IndexError", "top_recommendations")
           ELSE pc' = "done" /\ UNCHANGED error
    /\ UNCHANGED <<dimension, player, benchmarks, america_dna, threshold,
                   player_vector, scale, weaknesses, ret, pool, players_df,
                   america_vector, results, results_sorted, top_recommendations,
                   worst_recommendations, files>>

Next ==
    \/ LoadData
    \/ ExtractAmericaVector
    \/ IdentifyTeamWeaknesses
    \/ ScoreNextPlayer
    \/ RankResults
    \/ SelectWorst
    \/ SaveJson
    \/ SaveTopCsv
    \/ SaveWorstCsv
    \/ Summary

Spec == Init /\ [][Next]_vars

\* main is a sequential program: the interpreter runs its next statement
\* until main returns or an exception leaves it.  That progress is assumed for
\* the runs over the empty pool only, which is implied by weak fairness of
\* Next (the pool never changes); nothing is assumed about the time the calls
\* of the loop body take.
FairSpec == Spec /\ WF_vars(pool = <<>> /\ Next)

-----------------------------------------------------------------------------
(* Claims about the DimensionScorer *)

\* the table of sub-metrics and weights of section 4.1
DimensionTable(d) ==
    CASE d = "progression" ->
            <<<<"progressive_passes_p90", 40>>, <<"progressive_carries_p90", 30>>,
              <<"touches_att_third_p90", 30>>>>
      [] d = "creation" ->
            <<<<"xA_p90", 50>>, <<"shot_assists_p90", 30>>, <<"key_passes_p90", 20>>>>
      [] d = "finishing" -> <<<<"xG_p90", 60>>, <<"shot_quality", 40>>>>
      [] d = "pressing" ->
            <<<<"pressures_p90", 60>>, <<"tackles_p90", 20>>, <<"interceptions_p90", 20>>>>
      [] d = "possession" ->
            <<<<"pass_completion_pct", 60>>, <<"touches_att_third_p90", 40>>>>
      [] d = "dribbling" ->
            <<<<"dribbles_p90", 40>>, <<"dribbles_successful_p90", 35>>,
              <<"dribble_success_pct", 25>>>>

\* the value of a table entry for a record: the metric itself, or xG per shot
\* (defined for a record with shots only)
TableValue(r, m) ==
    IF m = "shot_quality" THEN Rat(r["xG_p90"], r["shots_p90"]) ELSE RInt(r[m])

\* min(player_value / benchmark_value, 1.0) * weight for one table entry
TableTerm(p, b, e) ==
    IF e[1] = "shot_quality" /\ ~(p["shots_p90"] > 0) THEN RInt(0)
    ELSE RMul(RMin(RDiv(TableValue(p, e[1]), TableValue(b, e[1])), RInt(1)),
              RInt(e[2]))

TableScore(p, b, d) ==
    RSum([i \in 1..Len(DimensionTable(d)) |-> TableTerm(p, b, DimensionTable(d)[i])])

RECURSIVE SumWeights(_)
SumWeights(t) == IF t = <<>> THEN 0 ELSE Head(t)[2] + SumWeights(Tail(t))

NonNegativeMetrics == \A m \in DOMAIN player : player[m] >= 0
PositiveBenchmarks == \A m \in DOMAIN benchmarks : benchmarks[m] > 0

InRange(x, lo, hi) == RLe(RInt(lo), x) /\ RLe(x, RInt(hi))

\* C1: for every dimension, every record with non-negative metric values and
\* every benchmark table with strictly positive values, each sub-term that
\* calculate_player_dna_score computes lies in [0, weight] and the returned
\* dimension score lies in [0, 100].
C1_SubTermsAndScoreInRange ==
    (pc = "done" /\ dimension \in Dims /\ NonNegativeMetrics /\ PositiveBenchmarks) =>
        /\ IsOk(ret.score)
        /\ Len(ret.terms) = Len(DimensionTable(dimension))
        /\ \A i \in 1..Len(ret.terms) :
              /\ IsOk(ret.terms[i])
              /\ InRange(ret.terms[i].val, 0, DimensionTable(dimension)[i][2])
        /\ InRange(ret.score.val, 0, 100)

\* a record that exceeds a benchmark (the clamp acts) and scores exactly 100
C1_Witness ==
    /\ pc = "done" /\ NonNegativeMetrics /\ PositiveBenchmarks
    /\ \E m \in PlayerMetrics(dimension) : player[m] > benchmarks[m]
    /\ IsOk(ret.score) /\ ret.score.val = RInt(100)

\* every sub-ratio of the dimension reaches 1
MeetsEveryBenchmark ==
    /\ \A m \in PlayerMetrics(dimension) : player[m] >= benchmarks[m]
    /\ dimension = "finishing" =>
          /\ player["shots_p90"] > 0
          /\ RLe(TableValue(benchmarks, "shot_quality"), TableValue(player, "shot_quality"))

\* C2: for each dimension calculate_player_dna_score returns the sum, over the
\* sub-metrics the table lists for it, of min(player_value / benchmark_value,
\* 1.0) * weight, with the listed metrics and weights; the weights of every
\* dimension add up to 100, which is the score of a record that meets every
\* benchmark.
C2_ScoreIsTableSum ==
    (pc = "done" /\ dimension \in Dims /\ PositiveBenchmarks) =>
        /\ IsOk(ret.score)
        /\ ret.score.val = TableScore(player, benchmarks, dimension)
        /\ SumWeights(DimensionTable(dimension)) = 100
        /\ MeetsEveryBenchmark => ret.score.val = RInt(100)

\* a record with a sub-ratio strictly between 0 and 1, one clamped sub-ratio
\* and a score that is not a whole number
C2_Witness ==
    /\ pc = "done" /\ PositiveBenchmarks
    /\ \E m \in PlayerMetrics(dimension) : 0 < player[m] /\ player[m] < benchmarks[m]
    /\ \E m \in PlayerMetrics(dimension) : player[m] > benchmarks[m]
    /\ IsOk(ret.score) /\ ret.score.val[2] > 1

\* C20: for every dimension name that is not one of the six,
\* calculate_player_dna_score raises an error (naming the dimension) and
\* returns no score
C20_UnknownDimensionRaises ==
    (pc = "done" /\ dimension \notin Dims) =>
        /\ ~IsOk(ret.score)
        /\ ret.score = Raise("ValueError", dimension)

\* the call was made with the name of a dimension in another spelling
C20_Witness ==
    /\ pc = "done"
    /\ dimension = "Progression"
    /\ ret.score.err = "ValueError"

-----------------------------------------------------------------------------
(* Claims about DNA-Match *)

IsZeroVector(v) == \A d \in Dims : v[d][1] = 0
IsZeroProfile(t) == \A d \in Dims : t[d] = 0

\* v = c * t for a rational c > 0 (t non-zero)
IsPositiveMultiple(v, t) ==
    /\ ~IsZeroProfile(t)
    /\ \A d \in Dims : t[d] >= 0 /\ v[d][1] >= 0 /\ (v[d][1] = 0 <=> t[d] = 0)
    /\ LET e == CHOOSE x \in Dims : t[x] # 0
       IN  \A d \in Dims : RMul(v[d], RInt(t[e])) = RMul(v[e], RInt(t[d]))

\* the vectors of the calls made so far, each with what the call returned
MatchCalls ==
    (IF pc \in {"plain", "done"}
        THEN {[vector |-> player_vector, result |-> ret.plain]} ELSE {})
    \cup
    (IF pc = "done"
        THEN {[vector |-> ScaleVector(player_vector, scale), result |-> ret.scaled]}
        ELSE {})

\* C5: calculate_dna_match_score returns 100 for every player whose DNA vector
\* is the team's vector or a positive scalar multiple of it (team vector
\* non-zero).
C5_MultipleOfTeamMatches100 ==
    \A c \in MatchCalls :
        IsPositiveMultiple(c.vector, america_dna) =>
            IsOk(c.result) /\ NumEqRat(c.result.val, RInt(100))

\* the player (92,97,98,85,96,99) against the same team vector, and the same
\* player scaled by a factor other than 1
C5_Witness ==
    /\ pc = "done"
    /\ america_dna = ExampleProfile
    /\ player_vector = RVec(ExampleProfile)
    /\ scale # RInt(1)
    /\ NumEqRat(ret.plain.val, RInt(100))
    /\ NumEqRat(ret.scaled.val, RInt(100))

\* C6: scaling every component of a player's DNA vector by the same constant
\* c > 0 leaves the dna_match unchanged, for every non-zero player vector and
\* every team vector.
C6_ScaleInvariant ==
    (pc = "done" /\ ~IsZeroVector(player_vector)) =>
        /\ IsOk(ret.plain) /\ IsOk(ret.scaled)
        /\ NumEq(ret.scaled.val, ret.plain.val)

\* a player that is no multiple of the team, scaled by a factor other than 1,
\* with a match strictly between 50 and 100
C6_Witness ==
    /\ pc = "done"
    /\ scale # RInt(1)
    /\ ~IsZeroVector(player_vector)
    /\ ~IsPositiveMultiple(player_vector, america_dna)
    /\ NumCmpRat(ret.plain.val, RInt(50)) > 0
    /\ NumCmpRat(ret.plain.val, RInt(100)) < 0
    /\ ret.scaled.val # ret.plain.val

\* C7: when the player's DNA vector or the team's DNA vector is the zero
\* vector, calculate_dna_match_score does not fail and returns the midpoint 50.
C7_ZeroVectorMatches50 ==
    \A c \in MatchCalls :
        (IsZeroVector(c.vector) \/ IsZeroProfile(america_dna)) =>
            IsOk(c.result) /\ NumEqRat(c.result.val, RInt(50))

\* a zero player vector against a non-zero team
C7_Witness ==
    /\ pc = "done"
    /\ IsZeroVector(player_vector)
    /\ ~IsZeroProfile(america_dna)
    /\ IsOk(ret.plain) /\ NumEqRat(ret.plain.val, RInt(50))

\* a non-zero player vector against the zero team vector
C7_WitnessZeroTeam ==
    /\ pc = "done"
    /\ ~IsZeroVector(player_vector)
    /\ IsZeroProfile(america_dna)
    /\ IsOk(ret.plain) /\ NumEqRat(ret.plain.val, RInt(50))

-----------------------------------------------------------------------------
(* Claims about the composite *)

Scored == pc = "done" /\ IsOk(ret.fit)

\* C3: the fit_score calculate_fit_score returns is 0.60 * dna_match + 0.30 *
\* gap_filling + 0.10 * role_fit of the three sub-scores returned with it; the
\* three terms are in the sum in every case, role_fit being the placeholder 70
\* and gap_filling the neutral 50 when the Weakness Set is empty.
C3_FitScoreIsWeightedSum ==
    Scored =>
        LET r == ret.fit.val
        IN  /\ r.fit_score.a =
                  RAdd(RAdd(RMul(Rat(60, 100), r.dna_match_score.a),
                            RMul(Rat(30, 100), r.gap_filling_score)),
                       RMul(Rat(10, 100), r.role_fit_score))
            /\ r.fit_score.b = RMul(Rat(60, 100), r.dna_match_score.b)
            /\ r.fit_score.sim = r.dna_match_score.sim
            /\ r.role_fit_score = RInt(70)
            /\ weaknesses = <<>> => r.gap_filling_score = RInt(50)

\* a player scored against a team without weaknesses: gap_filling is the
\* neutral 50, role_fit the placeholder 70, the match is not 50
C3_Witness ==
    /\ Scored
    /\ weaknesses = <<>>
    /\ ret.fit.val.gap_filling_score = RInt(50)
    /\ ret.fit.val.role_fit_score = RInt(70)
    /\ NumCmpRat(ret.fit.val.dna_match_score, RInt(50)) > 0
    /\ NumCmpRat(ret.fit.val.fit_score, RInt(52)) > 0

NumInRange(x, lo, hi) == NumGeRat(x, RInt(lo)) /\ NumLeRat(x, RInt(hi))

\* C4: fit_score lies in [0, 100] whenever dna_match, gap_filling and role_fit
\* each lie in [0, 100] and the three weights sum to 1.0.
C4_FitScoreInRange ==
    (/\ Scored
     /\ NumInRange(ret.fit.val.dna_match_score, 0, 100)
     /\ InRange(ret.fit.val.gap_filling_score, 0, 100)
     /\ InRange(ret.fit.val.role_fit_score, 0, 100)
     /\ WEIGHT_DNA_MATCH + WEIGHT_GAP_FILLING + WEIGHT_ROLE_FIT = 100)
    => NumInRange(ret.fit.val.fit_score, 0, 100)

\* a player with a positive gap_filling and a match that is no whole number
C4_Witness ==
    /\ Scored
    /\ NumInRange(ret.fit.val.dna_match_score, 0, 100)
    /\ RLt(RInt(0), ret.fit.val.gap_filling_score)
    /\ NumCmpRat(ret.fit.val.dna_match_score, RInt(50)) > 0
    /\ NumCmpRat(ret.fit.val.dna_match_score, RInt(100)) < 0
    /\ NumCmpRat(ret.fit.val.fit_score, RInt(67)) > 0
    /\ NumCmpRat(ret.fit.val.fit_score, RInt(100)) < 0

\* the scores of the player and of the team are not negative
NonNegativeScores ==
    /\ \A d \in Dims : RLe(RInt(0), ret.fit.val.player_dna[d])
    /\ \A d \in Dims : america_dna[d] >= 0

\* C28: when the dimension scores of the player and of the team are not
\* negative the cosine is not negative: dna_match_score lies in [50, 100] and
\* fit_score in [37, 100]
C28_NonNegativeScoresBounds ==
    (Scored /\ NonNegativeScores) =>
        /\ NumInRange(ret.fit.val.dna_match_score, 50, 100)
        /\ NumInRange(ret.fit.val.fit_score, 37, 100)

\* a player with every score at 0 against a team with weaknesses: dna_match is
\* exactly 50 and fit_score exactly 37
C28_Witness ==
    /\ Scored /\ NonNegativeScores /\ weaknesses # <<>>
    /\ \E d \in Dims : america_dna[d] > 0
    /\ NumEqRat(ret.fit.val.dna_match_score, RInt(50))
    /\ NumEqRat(ret.fit.val.fit_score, RInt(37))

\* a player whose vector is close to the team's: dna_match is above 99 and
\* fit_score above 95
C28_WitnessClose ==
    /\ Scored /\ NonNegativeScores
    /\ NumCmpRat(ret.fit.val.dna_match_score, RInt(99)) > 0
    /\ NumCmpRat(ret.fit.val.fit_score, RInt(95)) > 0

\* a player with negative scores: dna_match is below 50
C28_WitnessNegative ==
    /\ Scored /\ ~NonNegativeScores
    /\ NumCmpRat(ret.fit.val.dna_match_score, RInt(50)) < 0

-----------------------------------------------------------------------------
(* Claims about the WeaknessAnalyzer and Gap-Filling *)

WeakDims == {d \in Dims : america_dna[d] < threshold}

\* the Weakness Set as a mapping
WeaknessMap ==
    {<<weaknesses[i].dimension, weaknesses[i].gap>> : i \in 1..Len(weaknesses)}

\* C8: identify_team_weaknesses returns exactly the dimensions whose team score
\* is strictly below the threshold, each mapped to the positive gap threshold -
\* score; a dimension whose score equals the threshold is not in the set.  For
\* the scenario's team and threshold 95 the result is {pressing: 10,
\* progression: 3}.
C8_WeaknessSetIsStrictlyBelow ==
    pc \in {"weak", "done"} =>
        /\ WeaknessMap = {<<d, threshold - america_dna[d]>> : d \in WeakDims}
        /\ Len(weaknesses) = Cardinality(WeakDims)
        /\ \A i \in 1..Len(weaknesses) : weaknesses[i].gap > 0
        /\ \A d \in Dims :
              america_dna[d] = threshold =>
                  \A i \in 1..Len(weaknesses) : weaknesses[i].dimension # d
        /\ (america_dna = ExampleProfile /\ threshold = 95) =>
              WeaknessMap = {<<"pressing", 10>>, <<"progression", 3>>}

\* the scenario: pressing=85, progression=92, threshold 95
C8_Witness ==
    /\ pc = "weak"
    /\ america_dna = ExampleProfile /\ threshold = 95
    /\ weaknesses = <<[dimension |-> "progression", gap |-> 3],
                      [dimension |-> "pressing", gap |-> 10]>>

\* a team with a dimension exactly at the threshold and another below it
C8_WitnessAtThreshold ==
    /\ pc = "weak"
    /\ america_dna["progression"] = threshold
    /\ Len(weaknesses) = 1 /\ weaknesses[1].dimension = "pressing"

\* C9: when the Weakness Set is empty, calculate_gap_filling_score returns
\* exactly 50 for every player DNA profile, and raises nothing.
C9_EmptyWeaknessSetGives50 ==
    (pc = "done" /\ weaknesses = <<>>) => ret.gap = Ok(RInt(50))

\* a team without weaknesses and a player that is above it on one dimension
\* and below it on another
C9_Witness ==
    /\ pc = "done" /\ weaknesses = <<>>
    /\ \E d \in Dims : RLt(RInt(america_dna[d]), player_vector[d])
    /\ \E d \in Dims : RLt(player_vector[d], RInt(america_dna[d]))
    /\ ret.gap = Ok(RInt(50))

RECURSIVE SetSum(_, _)
\* the sum of f[d] over the d in a finite set
SetSum(f, S) ==
    IF S = {} THEN RInt(0)
    ELSE LET d == CHOOSE x \in S : TRUE IN RAdd(f[d], SetSum(f, S \ {d}))

\* numerator and denominator of section 4.4
GapNumerator ==
    SetSum([d \in Dims |->
               RMul(RMax(RInt(0), RSub(player_vector[d], RInt(america_dna[d]))),
                    RInt(threshold - america_dna[d]))], WeakDims)
GapDenominator ==
    SetSum([d \in Dims |->
               RInt((threshold - america_dna[d]) * (100 - america_dna[d]))], WeakDims)

\* C10: for a non-empty Weakness Set calculate_gap_filling_score returns
\* min(100, numerator / denominator * 100), numerator the sum over the weak
\* dimensions of max(0, player - team) * gap and denominator the sum of gap *
\* (100 - team); it returns 50 when the denominator is not positive; the
\* result lies in [0, 100].
C10_GapFillingFormula ==
    (pc = "done" /\ weaknesses # <<>>) =>
        /\ IsOk(ret.gap)
        /\ ret.gap.val =
              IF RLt(RInt(0), GapDenominator)
              THEN RMin(RInt(100),
                        RMul(RDiv(GapNumerator, GapDenominator), RInt(100)))
              ELSE RInt(50)
        /\ InRange(ret.gap.val, 0, 100)

\* two weak dimensions, an improvement on one of them only, a result strictly
\* between 0 and 100
C10_Witness ==
    /\ pc = "done" /\ Len(weaknesses) >= 2
    /\ RLt(RInt(0), GapDenominator)
    /\ \E i \in 1..Len(weaknesses) :
          RLt(RInt(america_dna[weaknesses[i].dimension]),
              player_vector[weaknesses[i].dimension])
    /\ \E i \in 1..Len(weaknesses) :
          RLt(player_vector[weaknesses[i].dimension],
              RInt(america_dna[weaknesses[i].dimension]))
    /\ RLt(RInt(0), ret.gap.val) /\ RLt(ret.gap.val, RInt(100))

\* a non-empty Weakness Set whose denominator is not positive
C10_WitnessNoDenominator ==
    /\ pc = "done" /\ weaknesses # <<>>
    /\ ~RLt(RInt(0), GapDenominator)
    /\ ret.gap = Ok(RInt(50))

\* a numerator above the denominator: the clamp at 100 decides
C10_WitnessClamped ==
    /\ pc = "done" /\ weaknesses # <<>>
    /\ RLt(RInt(0), GapDenominator) /\ RLt(GapDenominator, GapNumerator)
    /\ ret.gap = Ok(RInt(100))

\* C11: for a fixed team profile and Weakness Set, raising the player's score
\* on one weak dimension, every other dimension unchanged, never lowers
\* Gap-Filling
C11_GapFillingMonotone ==
    pc = "raised" =>
        /\ \E i \in 1..Len(weaknesses) : weaknesses[i].dimension = dimension
        /\ \A d \in Dims \ {dimension} : ret.raised_vector[d] = player_vector[d]
        /\ RLt(player_vector[dimension], ret.raised_vector[dimension])
        /\ IsOk(ret.gap) /\ IsOk(ret.raised)
        /\ RLe(ret.gap.val, ret.raised.val)

\* the raise moves the player from below the team's score to above it on a
\* weak dimension and Gap-Filling grows strictly
C11_Witness ==
    /\ pc = "raised"
    /\ RLt(player_vector[dimension], RInt(america_dna[dimension]))
    /\ RLt(RInt(america_dna[dimension]), ret.raised_vector[dimension])
    /\ RLt(ret.gap.val, ret.raised.val)

\* the raise happens below the team's score and Gap-Filling stays the same
C11_WitnessFlat ==
    /\ pc = "raised"
    /\ RLe(ret.raised_vector[dimension], RInt(america_dna[dimension]))
    /\ ret.gap.val = ret.raised.val
    /\ RLt(RInt(0), ret.gap.val)

\* the improvement on every weak dimension is the whole room 100 - team score
FullImprovement ==
    \A d \in WeakDims :
        RLe(RInt(100 - america_dna[d]), RSub(player_vector[d], RInt(america_dna[d])))

ScenarioTeam == america_dna = ExampleProfile /\ threshold = WEAKNESS_THRESHOLD

\* C12: against the team with pressing = 85 and progression = 92 (threshold
\* 95, Weakness Set {pressing: 10, progression: 3}) the candidate with 100 on
\* pressing and progression and the team's scores elsewhere gets a Gap-Filling
\* above 50, and Gap-Filling is below 100 unless the improvement is the whole
\* room 100 - team score on every weak dimension
C12_ScenarioGapFilling ==
    (pc = "done" /\ ScenarioTeam) =>
        /\ weaknesses = <<[dimension |-> "progression", gap |-> 3],
                          [dimension |-> "pressing", gap |-> 10]>>
        /\ IsOk(ret.gap)
        /\ player_vector = RVec(CandidateProfile(ExampleProfile))
              => RLt(RInt(50), ret.gap.val)
        /\ ~FullImprovement => RLt(ret.gap.val, RInt(100))

\* the candidate of the scenario: its improvement is the whole room on both
\* weak dimensions and its Gap-Filling is 100
C12_Witness ==
    /\ pc = "done" /\ ScenarioTeam
    /\ player_vector = RVec(CandidateProfile(ExampleProfile))
    /\ FullImprovement
    /\ ret.gap.val = RInt(100)

\* a candidate that improves pressing only: above 50 and below 100
C12_WitnessPartial ==
    /\ pc = "done" /\ ScenarioTeam
    /\ ~FullImprovement
    /\ RLt(RInt(50), ret.gap.val) /\ RLt(ret.gap.val, RInt(100))

\* the player's scores lie in [0, 100]
PlayerScoresInRange == \A d \in Dims : InRange(player_vector[d], 0, 100)

\* the player is above the team on some weak dimension
ExceedsOnWeakDimension ==
    \E d \in WeakDims : RLt(RInt(america_dna[d]), player_vector[d])

\* C27: for player scores in [0, 100], a non-empty Weakness Set and a
\* threshold of at most 100, the denominator of Gap-Filling is positive and
\* the numerator is at most the denominator, so that neither the fallback of
\* 50 nor the clamp at 100 decides the result: it is numerator / denominator *
\* 100, and it is 0 exactly when the player exceeds the team on no weak
\* dimension
C27_GapFillingNeedsNoGuard ==
    (pc = "done" /\ weaknesses # <<>> /\ threshold <= 100 /\ PlayerScoresInRange) =>
        /\ RLt(RInt(0), GapDenominator)
        /\ RLe(GapNumerator, GapDenominator)
        /\ ret.gap = Ok(RMul(RDiv(GapNumerator, GapDenominator), RInt(100)))
        /\ ret.gap.val = RInt(0) <=> ~ExceedsOnWeakDimension

\* threshold 100: a player above the team on one weak dimension and below it
\* on another, with a result strictly between 0 and 100
C27_Witness ==
    /\ pc = "done" /\ threshold = 100 /\ PlayerScoresInRange
    /\ ExceedsOnWeakDimension
    /\ \E d \in WeakDims : RLt(player_vector[d], RInt(america_dna[d]))
    /\ RLt(RInt(0), ret.gap.val) /\ RLt(ret.gap.val, RInt(100))

\* a player that exceeds the team on a dimension that is not weak and on no
\* weak dimension
C27_WitnessZero ==
    /\ pc = "done" /\ weaknesses # <<>> /\ threshold <= 100 /\ PlayerScoresInRange
    /\ ~ExceedsOnWeakDimension
    /\ \E d \in Dims \ WeakDims : RLt(RInt(america_dna[d]), player_vector[d])
    /\ ret.gap = Ok(RInt(0))

-----------------------------------------------------------------------------
(* Claims about main *)

\* main has ranked the results (step 5 is done)
Ranked ==
    \/ pc \in {"worst", "save_json", "save_top", "save_worst", "summary", "done"}
    \/ pc = "error" /\ error.err = "IndexError"

\* main has selected both extracts (step 5B is done)
Extracted == Ranked /\ pc # "worst"

\* main was ended by an exception of step 4
ScoringFailed ==
    pc = "error" /\ error.err # "IndexError" /\ america_vector # <<>>

Names(rs) == {rs[i].player_name : i \in 1..Len(rs)}

\* the names of the pool are the positions of its rows: results with equal
\* fit_score stand in the order of the input pool
TiesInInputOrder(rs) ==
    \A i, j \in 1..Len(rs) :
        (i < j /\ rs[i].fit_score = rs[j].fit_score)
            => rs[i].player_name < rs[j].player_name

HasTie(rs) ==
    \E i, j \in 1..Len(rs) : i < j /\ rs[i].fit_score = rs[j].fit_score

\* C13: the ranked pool holds the results by descending fit_score, every
\* adjacent pair having the earlier score at least the later, and results
\* with exactly equal fit_score in the order of the input pool
C13_RankedDescendingStable ==
    Ranked =>
        /\ Len(results_sorted) = Len(results)
        /\ Names(results_sorted) = Names(results)
        /\ \A i \in 1..(Len(results_sorted) - 1) :
              RLe(results_sorted[i + 1].fit_score, results_sorted[i].fit_score)
        /\ TiesInInputOrder(results_sorted)

\* a pool that is not in rank order, with two equal scores and a smaller one
C13_Witness ==
    /\ Ranked
    /\ results_sorted # results
    /\ HasTie(results_sorted)
    /\ \E i \in 1..(Len(results_sorted) - 1) :
          RLt(results_sorted[i + 1].fit_score, results_sorted[i].fit_score)

\* C14: in the top extract and in the bottom extract, results with equal
\* fit_score are listed in the order of the input pool
C14_ExtractsKeepInputOrder ==
    Extracted =>
        /\ TiesInInputOrder(top_recommendations)
        /\ TiesInInputOrder(worst_recommendations)

\* the part of C14 about the top extract, which the program meets
C14_TopExtractKeepsInputOrder ==
    Extracted => TiesInInputOrder(top_recommendations)

\* C15: in a run that completes, the scored pool holds one result per input
\* player, in number and in identity, players with defaulted cells included
C15_OneResultPerPlayer ==
    pc = "done" =>
        /\ Len(results) = Len(pool)
        /\ \A i \in 1..Len(pool) : results[i].player_name = pool[i].name
        /\ Len(results_sorted) = Len(pool)
        /\ Names(results_sorted) = {pool[i].name : i \in 1..Len(pool)}
        /\ files[1].total_players_analyzed = Len(pool)
        /\ files[1].rows = results_sorted

\* a completed run over a pool with a player whose missing cell was set to 0
C15_Witness ==
    /\ pc = "done"
    /\ Len(pool) > TOP_N
    /\ \E i \in 1..Len(pool) :
          /\ pool[i].nan # {}
          /\ \A m \in pool[i].nan : players_df[i].metrics[m] = 0
          /\ \E j \in 1..Len(results_sorted) :
                results_sorted[j].player_name = pool[i].name

\* the players main could score on their own
Scorable ==
    {i \in 1..Len(players_df) :
        IsOk(calculate_player_dna_vector(players_df[i].metrics, benchmarks))}

\* C16: a failure while scoring one player is confined to that player: the
\* other players are scored and the run is not ended by it
C16_ScoringFailureIsConfined ==
    pc \in {"done", "error"} =>
        /\ ~ScoringFailed
        /\ america_vector # <<>> => Scorable \subseteq Names(results)

\* C17: no output file is written before every player is scored and the
\* results are ranked, and a run that fails while scoring leaves no file
C17_NoPartialOutput ==
    /\ files # <<>> =>
          /\ Len(results) = Len(players_df)
          /\ Extracted
          /\ results_sorted = sorted_reverse(results)
    /\ ScoringFailed => files = <<>>
    /\ pc \in {"load", "extract", "weaknesses", "score", "worst", "save_json"}
          => files = <<>>

\* a run that failed on its second player, the first being scored
C17_Witness ==
    /\ ScoringFailed
    /\ Len(results) > 0
    /\ files = <<>>

\* a run that wrote its three files
C17_WitnessWritten ==
    /\ pc = "done"
    /\ Len(files) = 3
    /\ Len(results) = MaxPool

MissingDimension == ~(Dims \subseteq DOMAIN america_dna)

\* C18: if the team profile lacks the score of a dimension, the run fails
\* (with an error naming the dimension) before any player is scored and
\* yields no result
C18_MissingDimensionFailsFirst ==
    MissingDimension =>
        /\ america_vector = <<>>
        /\ weaknesses = <<>>
        /\ results = <<>>
        /\ files = <<>>
        /\ pc \in {"load", "extract", "error"}
        /\ pc = "error" =>
              error.err = "KeyError" /\ error.key \in Dims \ DOMAIN america_dna

\* the run failed on a profile without pressing, with players in the pool
C18_Witness ==
    /\ MissingDimension
    /\ pc = "error"
    /\ error = Raise("KeyError", "pressing")
    /\ Len(pool) > 0
    /\ results = <<>>

MissingBenchmark == ~(Metrics \subseteq DOMAIN benchmarks)

\* C19: if the benchmark table lacks a metric the formulas read, the run
\* fails with an error naming the metric before any player is scored, for
\* every pool, the empty one included
C19_MissingBenchmarkFailsFirst ==
    MissingBenchmark =>
        /\ results = <<>>
        /\ files = <<>>
        /\ pc \notin {"worst", "save_json", "save_top", "save_worst", "summary", "done"}
        /\ pc = "error" =>
              error.err = "KeyError" /\ error.key \in Metrics \ DOMAIN benchmarks

Disjoint(rs, ss) == Names(rs) \cap Names(ss) = {}

\* C29: the top-N and bottom-N extracts are disjoint exactly when the pool
\* holds at least 2 * N players; when the pool holds fewer than N players
\* both extracts hold the whole pool, the bottom one in reverse rank order;
\* no check rejects an N above the size of the pool
C29_ExtractsDisjointFrom2N ==
    /\ Extracted =>
          /\ Disjoint(top_recommendations, worst_recommendations)
                <=> Len(pool) >= 2 * TOP_N
          /\ Len(pool) < TOP_N =>
                /\ top_recommendations = results_sorted
                /\ worst_recommendations = Reverse(results_sorted)
    /\ pc = "error" => error.err \in {"KeyError", "IndexError"}

\* C29 with the empty pool set apart: the extracts of a non-empty pool are
\* disjoint exactly when the pool holds at least 2 * N players, and both
\* extracts of the empty pool are empty; when the pool holds fewer than N
\* players both extracts hold the whole pool, the bottom one in reverse rank
\* order; the only errors of a run are the KeyError of a missing key and the
\* IndexError of the empty pool, none is about N
C29_ExtractsDisjointFrom2NUnlessEmpty ==
    /\ Extracted =>
          /\ pool # <<>> =>
                (Disjoint(top_recommendations, worst_recommendations)
                    <=> Len(pool) >= 2 * TOP_N)
          /\ pool = <<>> =>
                top_recommendations = <<>> /\ worst_recommendations = <<>>
          /\ Len(top_recommendations) = (IF Len(pool) < TOP_N THEN Len(pool) ELSE TOP_N)
          /\ Len(worst_recommendations) = Len(top_recommendations)
          /\ Len(pool) < TOP_N =>
                /\ top_recommendations = results_sorted
                /\ worst_recommendations = Reverse(results_sorted)
    /\ pc = "error" =>
          /\ error.err \in {"KeyError", "IndexError"}
          /\ error.err = "IndexError" => pool = <<>>

\* a completed run over a pool of exactly 2 * N players: disjoint extracts
C29_Witness ==
    /\ pc = "done"
    /\ Len(pool) = 2 * TOP_N
    /\ Disjoint(top_recommendations, worst_recommendations)
    /\ Names(top_recommendations) \cup Names(worst_recommendations) = Names(results)

\* a completed run over a pool of fewer than N players
C29_WitnessSmallPool ==
    /\ pc = "done"
    /\ 0 < Len(pool) /\ Len(pool) < TOP_N
    /\ top_recommendations = results_sorted
    /\ worst_recommendations = Reverse(results_sorted)

\* a completed run over a pool of more than N and fewer than 2 * N players: a
\* player is in both extracts
C29_WitnessOverlap ==
    /\ pc = "done"
    /\ TOP_N < Len(pool) /\ Len(pool) < 2 * TOP_N
    /\ ~Disjoint(top_recommendations, worst_recommendations)

\* a run over the empty pool with the inputs valid otherwise
EmptyPoolRun == pool = <<>> /\ ~MissingDimension

FileNames == [i \in 1..Len(files) |-> files[i].name]

\* the three files are written, each without a row
EmptyFilesWritten ==
    /\ FileNames = <<"player_fit_scores.json", "top_recommendations.csv",
                     "worst_recommendations.csv">>
    /\ \A i \in 1..Len(files) : files[i].rows = <<>>

\* C30: with an empty pool main writes the three files (the scored pool and
\* both extracts, all empty) and fails only afterwards, in the summary, on
\* reading the first entry of the empty top extract: the run never completes,
\* its only error is that IndexError, raised when the files are written, and
\* every such run ends in that error
C30_EmptyPoolFailsAfterWriting ==
    /\ [](EmptyPoolRun =>
             /\ pc # "done"
             /\ pc = "error" =>
                   /\ error = Raise("IndexError", "top_recommendations")
                   /\ EmptyFilesWritten
             /\ pc = "summary" => EmptyFilesWritten)
    /\ (EmptyPoolRun /\ pc = "load") ~> (pc = "error" /\ EmptyFilesWritten)

\* the run over the empty pool has ended in the error of the summary
C30_Witness ==
    /\ EmptyPoolRun
    /\ pc = "error" /\ error.err = "IndexError"
    /\ EmptyFilesWritten
    /\ files[1].total_players_analyzed = 0

-----------------------------------------------------------------------------
(* Claims about incomplete and degenerate inputs *)

MissingKeys == Metrics \ DOMAIN player

\* the dimensions that read a metric the record lacks
DimensionsMissingKeys == {d \in Dims : PlayerMetrics(d) \cap MissingKeys # {}}

\* the keys an exception names
KeysNamed(e) == IF e.err = "KeyError" THEN {e.key} ELSE {}

\* C21: when the record lacks metrics of several dimensions,
\* calculate_player_dna_vector fails once, with one error that names all the
\* missing keys, and returns no partial profile
C21_AggregatedMissingKeys ==
    (pc = "done" /\ Cardinality(DimensionsMissingKeys) >= 2) =>
        /\ ~IsOk(ret.fit)
        /\ KeysNamed(ret.fit) = MissingKeys

\* the part of C21 the program meets: the call fails and returns no profile
C21_IncompleteRecordFails ==
    (pc = "done" /\ MissingKeys # {}) =>
        /\ ~IsOk(ret.fit)
        /\ KeysNamed(ret.fit) \subseteq MissingKeys
        /\ Cardinality(KeysNamed(ret.fit)) = 1

\* the configuration of a run of main is invalid
ConfigInvalid ==
    \/ WEIGHT_DNA_MATCH + WEIGHT_GAP_FILLING + WEIGHT_ROLE_FIT # 100
    \/ ~(0 < threshold /\ threshold <= 100)
    \/ TOP_N < 1
    \/ TOP_N > Len(pool)

\* C22: a run whose configuration is invalid (weights that do not sum to 1,
\* a threshold outside (0, 100], N below 1 or above the size of the pool) is
\* rejected before any player is scored: it scores nobody, writes nothing and
\* does not complete
C22_InvalidConfigurationRejected ==
    ConfigInvalid => results = <<>> /\ files = <<>> /\ pc # "done"

\* the metrics the i-th sub-term of dimension d reads from the benchmark table
TermMetrics(d, i) ==
    IF DimensionTable(d)[i][1] = "shot_quality"
        THEN {"xG_p90", "shots_p90"}
        ELSE {DimensionTable(d)[i][1]}

\* the sub-terms of the dimension that read a benchmark value of 0
ZeroBenchmarkTerms ==
    {i \in 1..Len(DimensionTable(dimension)) :
        \E m \in TermMetrics(dimension, i) : benchmarks[m] = 0}

\* C23: when the benchmark value of a metric the dimension reads is 0,
\* calculate_player_dna_score either fails with an error (naming a metric
\* whose benchmark is 0) or returns a score in which every sub-term that
\* reads a zero benchmark contributes 0; it returns no score that counts such
\* a sub-term at another value
C23_ZeroBenchmarkFailsOrContributesZero ==
    (pc = "done" /\ dimension \in Dims /\ ZeroBenchmarkTerms # {}) =>
        \/ /\ ret.score.err = "ZeroDivisionError"
           /\ benchmarks[ret.score.key] = 0
        \/ /\ IsOk(ret.score)
           /\ \A i \in ZeroBenchmarkTerms : ret.terms[i] = Ok(RInt(0))
           /\ ret.score.val =
                 RSum([i \in 1..Len(ret.terms) |->
                          IF i \in ZeroBenchmarkTerms THEN RInt(0)
                                                      ELSE ret.terms[i].val])

\* a call with a zero benchmark and a positive player value fails
C23_Witness ==
    /\ pc = "done" /\ dimension \in Dims
    /\ \E m \in PlayerMetrics(dimension) : benchmarks[m] = 0 /\ player[m] > 0
    /\ ret.score.err = "ZeroDivisionError"

\* the only call with a zero benchmark that returns a score: finishing of a
\* record without shots against a table whose shots_p90 is 0
C23_WitnessContributesZero ==
    /\ pc = "done" /\ ZeroBenchmarkTerms = {2}
    /\ IsOk(ret.score) /\ ret.score.val[1] > 0

\* C24: for a record with shots_p90 = 0 the shot-quality sub-term of
\* finishing is 0 and no quotient by shots_p90 is computed (no
\* ZeroDivisionError arises from it), so that the finishing score is the xG
\* sub-term alone and at most 60
C24_NoShotsNoShotQuality ==
    (pc = "done" /\ dimension = "finishing" /\ player["shots_p90"] = 0) =>
        /\ ret.terms[2] = Ok(RInt(0))
        /\ IsOk(ret.terms[1]) =>
              /\ IsOk(ret.score)
              /\ ret.score.val = ret.terms[1].val
              /\ RLe(ret.score.val, RInt(60))
        /\ ~IsOk(ret.terms[1]) => ret.score = ret.terms[1]

\* a record without shots and with xG above the benchmark scores exactly 60
C24_Witness ==
    /\ pc = "done" /\ dimension = "finishing" /\ player["shots_p90"] = 0
    /\ player["xG_p90"] > benchmarks["xG_p90"] /\ benchmarks["xG_p90"] > 0
    /\ IsOk(ret.score) /\ ret.score.val = RInt(60)

\* a result without the name of its player
Anonymous(r) == [r EXCEPT !.player_name = 0]

\* players with the same metrics have the same result, wherever they stand in
\* the pool and whoever was scored before them
SameMetricsSameResult ==
    \A i, j \in 1..Len(results) :
        players_df[i].metrics = players_df[j].metrics =>
            Anonymous(results[i]) = Anonymous(results[j])

\* a step that scores a player changes neither the team profile, nor the team
\* vector, nor the Weakness Set, nor the benchmark table
ScoringLeavesTeamAlone ==
    (ret' # ret \/ results' # results) =>
        /\ america_dna' = america_dna
        /\ america_vector' = america_vector
        /\ weaknesses' = weaknesses
        /\ benchmarks' = benchmarks

\* C25: scoring a player leaves the team profile, the team vector, the
\* Weakness Set and the benchmark table unchanged, so that the result of a
\* player is the same whatever players were scored before it and whatever
\* its place in the pool
C25_ScoringIsIndependent ==
    [][ScoringLeavesTeamAlone]_vars /\ [](pc # "load" => SameMetricsSameResult)

\* the first and the third player have the same metrics, a different player
\* with a different result was scored between them, and the team has
\* weaknesses
C25_Witness ==
    /\ pc = "done" /\ Len(results) >= 3 /\ weaknesses # <<>>
    /\ players_df[1].metrics = players_df[3].metrics
    /\ players_df[2].metrics # players_df[1].metrics
    /\ results[2].gap_filling_score # results[1].gap_filling_score
    /\ Anonymous(results[1]) = Anonymous(results[3])

-----------------------------------------------------------------------------
(* Claims about the explanation *)

Explained == pc = "done" /\ IsOk(ret.fit)

Position(d) == CHOOSE i \in 1..Len(DNA_DIMENSIONS) : DNA_DIMENSIONS[i] = d

\* the first dimension of a non-empty set, in the order of DNA_DIMENSIONS
FirstOf(ds) == CHOOSE d \in ds : \A e \in ds : Position(d) <= Position(e)

EliteDims == {d \in Dims : RLe(RInt(90), ret.fit.val.player_dna[d])}

\* the positions in the text of the reasons that open with `phrase`
ReasonsWith(phrase) == {i \in 1..Len(ret.text) : ret.text[i][1] = phrase}

MatchRuleFires == NumGeRat(ret.fit.val.dna_match_score, RInt(80))
GapRuleFires == RLe(RInt(70), ret.fit.val.gap_filling_score) /\ WeakDims # {}

\* the reason "Elite in: ..." expected for a non-empty set of elite dimensions
ExpectedEliteReason ==
    LET first == FirstOf(EliteDims)
        rest == EliteDims \ {first}
    IN  IF rest = {} THEN <<"Elite in: ", Capitalize(first)>>
        ELSE <<"Elite in: ", Capitalize(first), Capitalize(FirstOf(rest))>>

\* C26: the text of generate_recommendation_text is never empty; it names the
\* elite dimensions (score >= 90) in the fixed order and at most two of them;
\* it holds "Strengthens team's d" exactly when gap_filling_score >= 70 and
\* the Weakness Set is non-empty, d being the first weak dimension in the
\* fixed order; it is "Solid all-around player" exactly when no rule fires
C26_ExplanationRules ==
    Explained =>
        /\ ret.text # <<>>
        /\ \A i \in 1..Len(ret.text) : ret.text[i] # <<>>
        /\ \A i \in ReasonsWith("Elite in: ") :
              /\ Len(ret.text[i]) <= 3
              /\ EliteDims # {}
              /\ ret.text[i] = ExpectedEliteReason
        /\ Cardinality(ReasonsWith("Elite in: ")) = (IF EliteDims # {} THEN 1 ELSE 0)
        /\ \A i \in ReasonsWith("Strengthens team's ") :
              /\ GapRuleFires
              /\ ret.text[i] = <<"Strengthens team's ", FirstOf(WeakDims)>>
        /\ Cardinality(ReasonsWith("Strengthens team's ")) = (IF GapRuleFires THEN 1 ELSE 0)
        /\ ReasonsWith("Solid all-around player") # {} <=>
              ~MatchRuleFires /\ EliteDims = {} /\ ~GapRuleFires
        /\ ReasonsWith("Solid all-around player") # {} => Len(ret.text) = 1

\* a player elite in more than two dimensions who fills the gap of a team
\* whose first weakness is not the first dimension
C26_Witness ==
    /\ Explained
    /\ Cardinality(EliteDims) > 2
    /\ \E i \in ReasonsWith("Elite in: ") : Len(ret.text[i]) = 3
    /\ \E i \in ReasonsWith("Strengthens team's ") : ret.text[i][2] # "progression"

\* a player for whom no rule fires
C26_WitnessFallback ==
    /\ Explained /\ WeakDims # {}
    /\ ret.text = << <<"Solid all-around player">> >>

\* a player with one elite dimension and a gap-filling score below 70 against
\* a team with weaknesses
C26_WitnessOneElite ==
    /\ Explained /\ WeakDims # {} /\ ~GapRuleFires
    /\ Cardinality(EliteDims) = 1
    /\ ReasonsWith("Elite in: ") # {}

====
